---- MODULE Spec2Model ----
(***************************************************************************)
(* A model of the course-repository tools: the path resolver               *)
(* (course_paths.py), the classifier (course_constants.py), the            *)
(* scaffolding engine (generate_scaffolding.py) and the metadata engine    *)
(* (generate_meta.py).                                                     *)
(*                                                                         *)
(* Text is a sequence of one-character strings, a file's content is the    *)
(* sequence of its lines, a path is the sequence of its segments below the *)
(* filesystem root, and the filesystem is a function from the paths that   *)
(* exist to their nodes.  Symbolic links and line-break characters inside  *)
(* the values of a record are not modelled.                                *)
(***************************************************************************)
EXTENDS Integers, Sequences, FiniteSets, TLC

VARIABLES fs, prev, last, report, performed, clock, query, result, call, value

vars == <<fs, prev, last, report, performed, clock, query, result, call, value>>

(***************************************************************************)
(* Characters.  AsciiOrder lists the modelled characters by code point, so *)
(* that sorted() can be computed as Python computes it.                    *)
(***************************************************************************)
AsciiOrder ==
    << "\n", " ", "\"", "#", "'", "-", ".", "/",
       "0", "1", "2", "3", "4", "5", "6", "7", "8", "9", ":",
       "A", "B", "C", "D", "E", "F", "G", "H", "I", "J", "K", "L", "M",
       "N", "O", "P", "Q", "R", "S", "T", "U", "V", "W", "X", "Y", "Z",
       "[", "\\", "]", "_",
       "a", "b", "c", "d", "e", "f", "g", "h", "i", "j", "k", "l", "m",
       "n", "o", "p", "q", "r", "s", "t", "u", "v", "w", "x", "y", "z",
       "U+00B2", "U+0662" >>

\* the character ARABIC-INDIC DIGIT TWO, a decimal digit that is not an ASCII digit
ArabicTwo == "U+0662"

\* the character SUPERSCRIPT TWO, a digit for str.isdigit that int() and \d refuse
SuperscriptTwo == "U+00B2"

Chars == {AsciiOrder[i] : i \in DOMAIN AsciiOrder}

Ord == [c \in Chars |-> CHOOSE i \in DOMAIN AsciiOrder : AsciiOrder[i] = c]

DigitSeq == <<"0", "1", "2", "3", "4", "5", "6", "7", "8", "9">>

Digits == {DigitSeq[i] : i \in DOMAIN DigitSeq}

\* the characters \d and int() accept
DecimalDigits == Digits \cup {ArabicTwo}

\* the characters str.isdigit accepts
DigitChars == DecimalDigits \cup {SuperscriptTwo}

\* the value int() gives a decimal digit
DigitValue == [c \in DecimalDigits |-> IF c = ArabicTwo THEN 2 ELSE Ord[c] - Ord["0"]]

UpperLetters == {c \in Chars : Ord[c] >= Ord["A"] /\ Ord[c] <= Ord["Z"]}

LowerLetters == {c \in Chars : Ord[c] >= Ord["a"] /\ Ord[c] <= Ord["z"]}

Alnum == Digits \cup UpperLetters \cup LowerLetters

Whitespace == {" ", "\n"}

\* str.lower() and str.upper() on one character: 'a' is 30 places after 'A' in AsciiOrder
LowerChar == [c \in Chars |-> IF c \in UpperLetters THEN AsciiOrder[Ord[c] + 30] ELSE c]

UpperChar == [c \in Chars |-> IF c \in LowerLetters THEN AsciiOrder[Ord[c] - 30] ELSE c]

(***************************************************************************)
(* Text helpers: the str methods the tools use.                            *)
(***************************************************************************)
MinOf(S) == CHOOSE x \in S : \A y \in S : x <= y

\* the greatest element, found as the least of the negations
MaxOf(S) == 0 - MinOf({0 - x : x \in S})

RECURSIVE MapText(_, _)
MapText(f, s) == IF s = <<>> THEN <<>> ELSE <<f[Head(s)]>> \o MapText(f, Tail(s))

Lower(s) == MapText(LowerChar, s)

StartsWith(s, p) == Len(p) <= Len(s) /\ SubSeq(s, 1, Len(p)) = p

EndsWith(s, p) == Len(p) <= Len(s) /\ SubSeq(s, Len(s) - Len(p) + 1, Len(s)) = p

\* sub in s
Contains(s, sub) == \E i \in 1..(Len(s) - Len(sub) + 1) : SubSeq(s, i, i + Len(sub) - 1) = sub

HasChar(s, c) == \E i \in DOMAIN s : s[i] = c

\* str.strip(): leading and trailing whitespace removed
Strip(s) ==
    LET keep == {i \in DOMAIN s : s[i] \notin Whitespace}
    IN  IF keep = {} THEN <<>> ELSE SubSeq(s, MinOf(keep), MaxOf(keep))

\* str.strip(c)
StripChar(s, c) ==
    LET keep == {i \in DOMAIN s : s[i] # c}
    IN  IF keep = {} THEN <<>> ELSE SubSeq(s, MinOf(keep), MaxOf(keep))

\* str.isdigit() over the modelled characters
IsDigitText(s) == s # <<>> /\ \A i \in DOMAIN s : s[i] \in DigitChars

\* str.replace(a, b) for single characters
RECURSIVE ReplaceChar(_, _, _)
ReplaceChar(s, a, b) ==
    IF s = <<>> THEN <<>>
    ELSE <<IF Head(s) = a THEN b ELSE Head(s)>> \o ReplaceChar(Tail(s), a, b)

\* str.split(c): the pieces between the occurrences of c, empty pieces kept
RECURSIVE SplitOn(_, _)
SplitOn(s, c) ==
    IF ~HasChar(s, c) THEN <<s>>
    ELSE LET i == MinOf({j \in DOMAIN s : s[j] = c})
         IN  <<SubSeq(s, 1, i - 1)>> \o SplitOn(SubSeq(s, i + 1, Len(s)), c)

\* re.sub(r"[class]+", rep, s): every maximal run of characters of cls becomes rep
RECURSIVE SubRuns(_, _, _)
SubRuns(s, cls, rep) ==
    IF s = <<>> THEN <<>>
    ELSE IF Head(s) \in cls
         THEN LET rest == {j \in DOMAIN s : s[j] \notin cls}
                  n == IF rest = {} THEN Len(s) + 1 ELSE MinOf(rest)
              IN  <<rep>> \o SubRuns(SubSeq(s, n, Len(s)), cls, rep)
         ELSE <<Head(s)>> \o SubRuns(Tail(s), cls, rep)

\* the compare of two str values: by code point, a proper prefix first
TextLeq(a, b) ==
    LET n == IF Len(a) < Len(b) THEN Len(a) ELSE Len(b)
        diff == {i \in 1..n : a[i] # b[i]}
    IN  IF diff = {} THEN Len(a) <= Len(b)
        ELSE Ord[a[MinOf(diff)]] < Ord[b[MinOf(diff)]]

\* sorted(S) for a set of str values
RECURSIVE SortTexts(_)
SortTexts(S) ==
    IF S = {} THEN <<>>
    ELSE LET m == CHOOSE x \in S : \A y \in S : TextLeq(x, y)
         IN  <<m>> \o SortTexts(S \ {m})

RECURSIVE JoinWith(_, _)
JoinWith(parts, sep) ==
    IF parts = <<>> THEN <<>>
    ELSE IF Len(parts) = 1 THEN parts[1]
    ELSE parts[1] \o sep \o JoinWith(Tail(parts), sep)

\* int(s) for a text of decimal digits
RECURSIVE ParseInt(_)
ParseInt(s) ==
    IF s = <<>> THEN 0
    ELSE 10 * ParseInt(SubSeq(s, 1, Len(s) - 1)) + DigitValue[s[Len(s)]]

\* str(n) for n >= 0
RECURSIVE IntText(_)
IntText(n) == IF n < 10 THEN <<DigitSeq[n + 1]>> ELSE IntText(n \div 10) \o <<DigitSeq[(n % 10) + 1]>>

\* f"{n:02d}"
Pad2(n) == IF n < 10 THEN <<"0">> \o IntText(n) ELSE IntText(n)

SeqToSet(s) == {s[i] : i \in DOMAIN s}

(***************************************************************************)
(* Program constants of course_constants.py.                               *)
(***************************************************************************)
HEADER_NAME == <<"_","h","e","a","d","e","r",".","m","d">>

AUTOGEN_NAME == <<"_","a","u","t","o","g","e","n",".","m","d">>

README_NAME == <<"R","E","A","D","M","E",".","m","d">>

META_NAME == <<"m","e","t","a",".","y","a","m","l">>

PROTECTED_FILES == {HEADER_NAME, AUTOGEN_NAME, README_NAME, META_NAME}

LEGACY_DIRNAMES == {<<"n","o","t","e","b","o","o","k","s">>}

ASSIGNMENTS_DIRNAME == <<"A","s","s","i","g","n","m","e","n","t","s">>

RESOURCES_DIRNAME == <<"R","e","s","o","u","r","c","e","s">>

LESSONS_DIRNAME == <<"L","e","s","s","o","n","s">>

ASSESSMENTS_DIRNAME == <<"A","s","s","e","s","s","m","e","n","t","s">>

ASSESSMENT_KEYWORDS ==
    { <<"q","u","i","z">>, <<"m","i","n","i","_","q","u","i","z">>, <<"m","i","n","i","q","u","i","z">>, <<"w","o","r","k","s","h","e","e","t">>, <<"e","x","a","m">>, <<"t","e","s","t">>,
      <<"a","s","s","e","s","s","m","e","n","t">> }

RESOURCE_EXTENSIONS ==
    { <<".","m","d">>, <<".","p","d","f">>, <<".","c","s","v">>, <<".","t","s","v">>, <<".","j","s","o","n">>, <<".","g","e","o","j","s","o","n">>, <<".","g","p","k","g">>,
      <<".","s","h","p">>, <<".","t","i","f">>, <<".","t","i","f","f">>, <<".","p","n","g">>, <<".","j","p","g">>, <<".","j","p","e","g">>, <<".","z","i","p">> }

IPYNB == <<".","i","p","y","n","b">>

(***************************************************************************)
(* Paths and the filesystem.                                               *)
(***************************************************************************)
DirNode == [kind |-> "dir", text |-> <<>>]

FileNode(t) == [kind |-> "file", text |-> t]

Exists(f, p) == p \in DOMAIN f

IsDir(f, p) == p \in DOMAIN f /\ f[p].kind = "dir"

IsFile(f, p) == p \in DOMAIN f /\ f[p].kind = "file"

Parent(p) == SubSeq(p, 1, Len(p) - 1)

BaseName(p) == p[Len(p)]

\* Path.parents: the proper ancestors, the filesystem root included
Parents(p) == {SubSeq(p, 1, k) : k \in 0..(Len(p) - 1)}

\* Path.resolve(): "." dropped, ".." steps up and stays at the filesystem root
RECURSIVE ResolveFrom(_, _)
ResolveFrom(done, rest) ==
    IF rest = <<>> THEN done
    ELSE IF Head(rest) = <<".">> THEN ResolveFrom(done, Tail(rest))
    ELSE IF Head(rest) = <<".",".">>
         THEN ResolveFrom(IF done = <<>> THEN <<>> ELSE Parent(done), Tail(rest))
    ELSE ResolveFrom(Append(done, Head(rest)), Tail(rest))

Resolve(p) == ResolveFrom(<<>>, p)

\* the index of the dot that starts Path.suffix, 0 when the name has no suffix
SuffixDot(name) ==
    LET dots == {i \in DOMAIN name : name[i] = "."}
    IN  IF dots = {} THEN 0
        ELSE IF MaxOf(dots) > 1 /\ MaxOf(dots) < Len(name) THEN MaxOf(dots) ELSE 0

Suffix(name) == IF SuffixDot(name) = 0 THEN <<>> ELSE SubSeq(name, SuffixDot(name), Len(name))

Stem(name) == IF SuffixDot(name) = 0 THEN name ELSE SubSeq(name, 1, SuffixDot(name) - 1)

\* Path.iterdir(): the direct children
IterDir(f, d) == {p \in DOMAIN f : Len(p) = Len(d) + 1 /\ SubSeq(p, 1, Len(d)) = d}

\* sorted() of sibling paths: by name
SortPaths(d, S) ==
    LET names == SortTexts({BaseName(p) : p \in S})
    IN  [i \in DOMAIN names |-> Append(d, names[i])]

\* Path.mkdir(parents=True, exist_ok=True)
MkdirP(f, p) ==
    LET want == Parents(p) \cup {p}
    IN  [q \in DOMAIN f \cup want |-> IF q \in DOMAIN f THEN f[q] ELSE DirNode]

\* Path.write_text(text)
WriteText(f, p, text) == [q \in DOMAIN f \cup {p} |-> IF q = p THEN FileNode(text) ELSE f[q]]

\* a variant of shutil.move that leaves the source in place (a copy)
ShutilCopy(f, src, dst) ==
    LET real == IF IsDir(f, dst) THEN Append(dst, BaseName(src)) ELSE dst
    IN  [q \in DOMAIN f \cup {real} |-> IF q = real THEN f[src] ELSE f[q]]

\* shutil.move(src, dst) of a file: into dst when dst is a directory, else a rename
\* that replaces dst
ShutilMove(f, src, dst) ==
    LET real == IF IsDir(f, dst) THEN Append(dst, BaseName(src)) ELSE dst
    IN  [q \in (DOMAIN f \ {src}) \cup {real} |-> IF q = real THEN f[src] ELSE f[q]]

(***************************************************************************)
(* Classifier (course_constants.py).                                       *)
(***************************************************************************)
\* the group "rest" of NUMBERED_PREFIX_RE: what .+ takes of the text after the
\* dash, $ standing at the end or before one last line break
RestOf(name) ==
    LET tail == SubSeq(name, 4, Len(name))
    IN  IF tail # <<>> /\ tail[Len(tail)] = "\n" THEN SubSeq(tail, 1, Len(tail) - 1) ELSE tail

\* NUMBERED_PREFIX_RE: ^(\d{2})-(.+)$, where \d is any decimal digit and . is any
\* character but a line break
is_numbered_name(name) ==
    /\ Len(name) >= 4
    /\ name[1] \in DecimalDigits
    /\ name[2] \in DecimalDigits
    /\ name[3] = "-"
    /\ RestOf(name) # <<>>
    /\ ~HasChar(RestOf(name), "\n")

\* split_numbered: the record of the match, ok FALSE standing for None
split_numbered(name) ==
    IF is_numbered_name(name)
    THEN [ok |-> TRUE, num |-> ParseInt(SubSeq(name, 1, 2)), rest |-> RestOf(name)]
    ELSE [ok |-> FALSE, num |-> 0, rest |-> <<>>]

\* re.sub(r"[^a-z0-9]+", "_", s.lower()).strip("_")
NotLowerAlnum == Chars \ (Digits \cup LowerLetters)

normalize_token(s) == StripChar(SubRuns(Lower(s), NotLowerAlnum, "_"), "_")

ResourceTokens ==
    { <<"g","l","o","s","s","a","r","y">>, <<"r","e","s","o","u","r","c","e">>, <<"r","e","s","o","u","r","c","e","s">>, <<"h","e","l","p","e","r">>, <<"h","e","l","p","e","r","s">>,
      <<"r","e","f","e","r","e","n","c","e">>, <<"v","i","d","e","o">>, <<"v","i","d","e","o","s">> }

AssessTokens == {normalize_token(k) : k \in ASSESSMENT_KEYWORDS}

\* a variant of classify_notebook_stem that tests the resource tokens first
classify_resource_first(stem) ==
    LET tokens == SeqToSet(SplitOn(normalize_token(stem), "_")) \ {<<>>}
    IN  IF tokens \cap ResourceTokens # {} THEN "resource"
        ELSE IF tokens \cap AssessTokens # {} THEN "assessment"
        ELSE "lesson"

classify_notebook_stem(stem) ==
    LET tokens == SeqToSet(SplitOn(normalize_token(stem), "_")) \ {<<>>}
        assess_tokens == AssessTokens
    IN  IF tokens \cap assess_tokens # {} THEN "assessment"
        ELSE IF tokens \cap ResourceTokens # {} THEN "resource"
        ELSE "lesson"

is_resource_file(f, p) == IsFile(f, p) /\ Lower(Suffix(BaseName(p))) \in RESOURCE_EXTENSIONS

(***************************************************************************)
(* Discovery (course_paths.py).                                            *)
(***************************************************************************)
root_level_notebooks(f, group) ==
    SortPaths(group, {p \in IterDir(f, group) : IsFile(f, p) /\ Suffix(BaseName(p)) = IPYNB})

is_proto_group(f, group) == Len(root_level_notebooks(f, group)) > 0

group_paths(group) ==
    [ group |-> group,
      lessons |-> Append(group, LESSONS_DIRNAME),
      assessments |-> Append(group, ASSESSMENTS_DIRNAME),
      resources |-> Append(group, RESOURCES_DIRNAME) ]

(***************************************************************************)
(* Scaffolding engine (generate_scaffolding.py).                           *)
(***************************************************************************)
\* the capitalisation of one word of slug_title
SlugWord(p) == IF Len(p) > 1 THEN <<UpperChar[p[1]]>> \o Tail(p) ELSE MapText(UpperChar, p)

RECURSIVE SlugWords(_)
SlugWords(parts) ==
    IF parts = <<>> THEN <<>> ELSE <<SlugWord(Head(parts))>> \o SlugWords(Tail(parts))

\* re.split(r"[^A-Za-z0-9]+", raw) without its empty pieces
NotAlnum == Chars \ Alnum

AlnumWords(raw) == SelectSeq(SplitOn(SubRuns(raw, NotAlnum, " "), " "), LAMBDA p : p # <<>>)

\* the class [_\-\s] of slug_title
SlugSeparators == {"_", "-", " "}

slug_title(stem) ==
    LET raw == Strip(SubRuns(stem, SlugSeparators, " "))
        parts == AlnumWords(raw)
    IN  IF parts = <<>> THEN <<"U","n","t","i","t","l","e","d">> ELSE JoinWith(SlugWords(parts), <<"_">>)

\* a variant of next_atomic_number that counts the lesson folders
next_atomic_number_by_count(f, lessons_dir) ==
    LET dirs == IF Exists(f, lessons_dir)
                THEN {q \in IterDir(f, lessons_dir) :
                        IsDir(f, q) /\ split_numbered(BaseName(q)).ok}
                ELSE {}
    IN  Cardinality(dirs) + 1

next_atomic_number(f, lessons_dir) ==
    LET nums == IF Exists(f, lessons_dir)
                THEN {split_numbered(BaseName(p)).num :
                        p \in {q \in IterDir(f, lessons_dir) :
                                 IsDir(f, q) /\ split_numbered(BaseName(q)).ok}}
                ELSE {}
    IN  IF nums # {} THEN MaxOf(nums) + 1 ELSE 1

tpl_group_readme(group_title) ==
    << <<"#"," ">> \o group_title, <<>>, <<"#","#"," ","O","v","e","r","v","i","e","w">>, <<>>, <<"-"," ","T","O","D","O">> >>

tpl_lesson_readme(title) ==
    << <<"#"," ">> \o title, <<>>, <<"#","#"," ","G","o","a","l","s">>, <<>>, <<"-"," ","T","O","D","O">>, <<>>, <<"#","#"," ","I","n","s","t","r","u","c","t","i","o","n","s">>,
       <<>>, <<"-"," ","T","O","D","O">> >>

tpl_meta_lesson(title) ==
    << <<"s","c","h","e","m","a","_","v","e","r","s","i","o","n",":"," ","1">>, <<"t","i","t","l","e",":"," ">> \o title, <<"t","y","p","e",":"," ","a","s","s","i","g","n","m","e","n","t">>, <<"s","t","a","t","u","s",":"," ","d","r","a","f","t">>,
       <<"d","u","e",":"," ","n","u","l","l">>, <<"p","o","i","n","t","s",":"," ","n","u","l","l">>, <<"n","o","t","e","b","o","o","k","s",":"," ","[","]">> >>

tpl_meta_assessments ==
    << <<"s","c","h","e","m","a","_","v","e","r","s","i","o","n",":"," ","1">>, <<"t","i","t","l","e",":"," ","A","s","s","e","s","s","m","e","n","t","s">>, <<"t","y","p","e",":"," ","a","s","s","e","s","s","m","e","n","t">>,
       <<"s","t","a","t","u","s",":"," ","d","r","a","f","t">>, <<"d","u","e",":"," ","n","u","l","l">>, <<"p","o","i","n","t","s",":"," ","n","u","l","l">>, <<"n","o","t","e","b","o","o","k","s",":"," ","[","]">> >>

tpl_meta_resources ==
    << <<"s","c","h","e","m","a","_","v","e","r","s","i","o","n",":"," ","1">>, <<"t","i","t","l","e",":"," ","R","e","s","o","u","r","c","e","s">>, <<"t","y","p","e",":"," ","r","e","s","o","u","r","c","e">>, <<"s","t","a","t","u","s",":"," ","d","r","a","f","t">>,
       <<"f","i","l","e","s",":"," ","[","]">> >>

(***************************************************************************)
(* Writer of generate_scaffolding.py.  A run carries st: the filesystem,   *)
(* the lines printed (out) and the mutating calls made (acts).             *)
(***************************************************************************)
Act(op, src, dst) == [op |-> op, src |-> src, dst |-> dst]

Writer_mkdir(w, st, p) ==
    IF w.dry_run
    THEN [st EXCEPT !.out = Append(@, Act("mkdir", p, p))]
    ELSE [st EXCEPT !.fs = MkdirP(@, p), !.acts = Append(@, Act("mkdir", p, p))]

Writer_write(w, st, p, content) ==
    IF Exists(st.fs, p) /\ ~w.force THEN st
    ELSE IF w.dry_run
    THEN [st EXCEPT !.out = Append(@, Act(IF Exists(st.fs, p) THEN "overwrite" ELSE "create", p, p))]
    ELSE [st EXCEPT !.fs = WriteText(MkdirP(@, Parent(p)), p, content),
                    !.acts = Append(@, Act(IF Exists(st.fs, p) THEN "overwrite" ELSE "create", p, p))]

\* a variant of Writer.move without the dry_run test
Writer_move_always(w, st, src, dst) ==
    [st EXCEPT !.fs = ShutilMove(MkdirP(@, Parent(dst)), src, dst),
               !.acts = Append(@, Act("move", src, dst))]

Writer_move(w, st, src, dst) ==
    IF w.dry_run
    THEN [st EXCEPT !.out = Append(@, Act("move", src, dst))]
    ELSE [st EXCEPT !.fs = ShutilMove(MkdirP(@, Parent(dst)), src, dst),
                    !.acts = Append(@, Act("move", src, dst))]

ensure_group_scaffold(st, group, gp, w) ==
    LET sn == split_numbered(BaseName(group))
        group_title == IF sn.ok THEN sn.rest ELSE BaseName(group)
        s1 == Writer_write(w, st, Append(group, AUTOGEN_NAME), <<>>)
        s2 == Writer_write(w, s1, Append(group, HEADER_NAME), <<>>)
        s3 == Writer_write(w, s2, Append(group, README_NAME),
                           tpl_group_readme(ReplaceChar(group_title, "_", " ")))
        s4 == Writer_mkdir(w, s3, gp.lessons)
        s5 == Writer_mkdir(w, s4, gp.assessments)
        s6 == Writer_mkdir(w, s5, gp.resources)
        s7 == Writer_write(w, s6, Append(gp.assessments, AUTOGEN_NAME), <<>>)
        s8 == Writer_write(w, s7, Append(gp.assessments, HEADER_NAME), <<>>)
        s9 == Writer_write(w, s8, Append(gp.assessments, README_NAME), <<<<"#"," ","A","s","s","e","s","s","m","e","n","t","s">>, <<>>>>)
        s10 == Writer_write(w, s9, Append(gp.assessments, META_NAME), tpl_meta_assessments)
        s11 == Writer_write(w, s10, Append(gp.resources, README_NAME), <<<<"#"," ","R","e","s","o","u","r","c","e","s">>, <<>>>>)
    IN  Writer_write(w, s11, Append(gp.resources, META_NAME), tpl_meta_resources)

\* a variant of make_atomic_folder that builds the lesson folder and leaves the
\* notebook where it is
make_atomic_folder_keeping_notebook(st, lessons_dir, nb, w) ==
    LET num == next_atomic_number(st.fs, lessons_dir)
        title == slug_title(Stem(BaseName(nb)))
        atomic == Append(lessons_dir, Pad2(num) \o <<"-">> \o title)
        shown == ReplaceChar(title, "_", " ")
        s1 == Writer_mkdir(w, st, atomic)
        s2 == Writer_write(w, s1, Append(atomic, AUTOGEN_NAME), <<>>)
        s3 == Writer_write(w, s2, Append(atomic, HEADER_NAME), <<>>)
        s4 == Writer_write(w, s3, Append(atomic, README_NAME), tpl_lesson_readme(shown))
    IN  Writer_write(w, s4, Append(atomic, META_NAME), tpl_meta_lesson(shown))

make_atomic_folder(st, lessons_dir, nb, w) ==
    LET num == next_atomic_number(st.fs, lessons_dir)
        title == slug_title(Stem(BaseName(nb)))
        atomic == Append(lessons_dir, Pad2(num) \o <<"-">> \o title)
        shown == ReplaceChar(title, "_", " ")
        s1 == Writer_mkdir(w, st, atomic)
        s2 == Writer_write(w, s1, Append(atomic, AUTOGEN_NAME), <<>>)
        s3 == Writer_write(w, s2, Append(atomic, HEADER_NAME), <<>>)
        s4 == Writer_write(w, s3, Append(atomic, README_NAME), tpl_lesson_readme(shown))
        s5 == Writer_write(w, s4, Append(atomic, META_NAME), tpl_meta_lesson(shown))
    IN  Writer_move(w, s5, nb, Append(atomic, BaseName(nb)))

\* a variant of move_root_artifacts_to_resources that leaves every file where it is
move_root_artifacts_nowhere(st, group, resources_dir, w) == st

\* one pass of the loop of move_root_artifacts_to_resources over the listing ps
RECURSIVE MoveArtifactsLoop(_, _, _, _)
MoveArtifactsLoop(st, ps, resources_dir, w) ==
    IF ps = <<>> THEN st
    ELSE LET p == Head(ps)
             skip == \/ IsDir(st.fs, p)
                     \/ BaseName(p) \in PROTECTED_FILES
                     \/ Suffix(BaseName(p)) = IPYNB
                     \/ ~is_resource_file(st.fs, p)
             s1 == IF skip THEN st ELSE Writer_move(w, st, p, Append(resources_dir, BaseName(p)))
         IN  MoveArtifactsLoop(s1, Tail(ps), resources_dir, w)

move_root_artifacts_to_resources(st, group, resources_dir, w) ==
    MoveArtifactsLoop(st, SortPaths(group, IterDir(st.fs, group)), resources_dir, w)

\* the loop of explode_group over the notebooks nbs that were at the group root
RECURSIVE RouteNotebooks(_, _, _, _)
RouteNotebooks(st, nbs, gp, w) ==
    IF nbs = <<>> THEN st
    ELSE LET nb == Head(nbs)
             kind == classify_notebook_stem(Stem(BaseName(nb)))
             s1 == IF kind = "assessment"
                   THEN Writer_move(w, st, nb, Append(gp.assessments, BaseName(nb)))
                   ELSE IF kind = "resource"
                   THEN Writer_move(w, st, nb, Append(gp.resources, BaseName(nb)))
                   ELSE make_atomic_folder(st, gp.lessons, nb, w)
         IN  RouteNotebooks(s1, Tail(nbs), gp, w)

explode_group(st, group, w, move_artifacts) ==
    LET gp == group_paths(group)
        s1 == ensure_group_scaffold(st, group, gp, w)
        s2 == RouteNotebooks(s1, root_level_notebooks(s1.fs, group), gp, w)
    IN  IF move_artifacts THEN move_root_artifacts_to_resources(s2, group, gp.resources, w) ELSE s2

(***************************************************************************)
(* Path resolver (course_paths.py).  A failed call is a record with        *)
(* ok = FALSE, or a kind other than "ok", standing for the exception.      *)
(***************************************************************************)
\* an optional command-line string: given = FALSE is None
NoArg == [given |-> FALSE, text |-> <<>>]

StrArg(t) == [given |-> TRUE, text |-> t]

\* an optional command-line path, as its segments
NoPath == [given |-> FALSE, path |-> <<>>]

PathArg(p) == [given |-> TRUE, path |-> p]

resolve_course_root(root_arg) == Resolve(root_arg)

resolve_assignments_root(f, course_root) ==
    LET root == Resolve(course_root)
        assignments == Append(root, ASSIGNMENTS_DIRNAME)
    IN  IF root # <<>> /\ BaseName(root) = ASSIGNMENTS_DIRNAME /\ IsDir(f, root)
        THEN [ok |-> TRUE, path |-> root]
        ELSE IF ~Exists(f, assignments) \/ ~IsDir(f, assignments)
        THEN [ok |-> FALSE, path |-> root]
        ELSE [ok |-> TRUE, path |-> assignments]

\* a variant of ensure_under that compares the paths as given, unresolved
ensure_under_unresolved(base, target) ==
    IF target = base \/ base \in Parents(target) THEN [ok |-> TRUE, path |-> Resolve(target)]
    ELSE [ok |-> FALSE, path |-> Resolve(target)]

ensure_under(base, target) ==
    LET b == Resolve(base)
        t == Resolve(target)
    IN  IF t = b THEN [ok |-> TRUE, path |-> t]
        ELSE IF b \in Parents(t) THEN [ok |-> TRUE, path |-> t]
        ELSE [ok |-> FALSE, path |-> t]

list_sections(f, assignments_root) ==
    SortPaths(assignments_root,
              {p \in IterDir(f, assignments_root) :
                 IsDir(f, p) /\ is_numbered_name(BaseName(p)) /\ ~StartsWith(BaseName(p), <<".">>)})

Names(ps) == [i \in DOMAIN ps |-> BaseName(ps[i])]

Resolved(ps) == [kind |-> "ok", paths |-> ps, named |-> <<>>]

\* RuntimeError: kind says which, named is the list of names in its message
Raised(kind, ps) == [kind |-> kind, paths |-> <<>>, named |-> Names(ps)]

\* a variant of the exact step that matches nothing
NoMatches(secs, s) == <<>>

\* [p for p in sections if p.name == s]
ExactMatches(secs, s) == SelectSeq(secs, LAMBDA p : BaseName(p) = s)

\* [p for p in sections if p.name.startswith(s + "-")]
PrefixMatches(secs, s) == SelectSeq(secs, LAMBDA p : StartsWith(BaseName(p), s \o <<"-">>))

\* a variant of the substring step that keeps the first match only
FirstFuzzyMatch(secs, s) ==
    LET all == SelectSeq(secs, LAMBDA p : Contains(Lower(BaseName(p)), Lower(s)))
    IN  IF all = <<>> THEN <<>> ELSE <<Head(all)>>

\* [p for p in sections if s.lower() in p.name.lower()]
FuzzyMatches(secs, s) == SelectSeq(secs, LAMBDA p : Contains(Lower(BaseName(p)), Lower(s)))

\* a variant of resolve_sections in which a two-digit text that no NN- prefix
\* matches goes on to the substring step
resolve_sections_falling_through(f, assignments_root, section_arg) ==
    LET secs == list_sections(f, assignments_root)
        s == Strip(section_arg.text)
        exact == ExactMatches(secs, s)
        by_num == PrefixMatches(secs, s)
        fuzzy == FuzzyMatches(secs, s)
    IN  IF ~section_arg.given \/ section_arg.text = <<>> THEN Resolved(secs)
        ELSE IF exact # <<>> THEN Resolved(exact)
        ELSE IF IsDigitText(s) /\ Len(s) = 2 /\ Len(by_num) = 1 THEN Resolved(by_num)
        ELSE IF IsDigitText(s) /\ Len(s) = 2 /\ Len(by_num) > 1 THEN Raised("ambiguous", by_num)
        ELSE IF Len(fuzzy) = 1 THEN Resolved(fuzzy)
        ELSE IF Len(fuzzy) > 1 THEN Raised("ambiguous", fuzzy)
        ELSE Raised("not_found", <<>>)

resolve_sections(f, assignments_root, section_arg) ==
    LET secs == list_sections(f, assignments_root)
        s == Strip(section_arg.text)
        exact == ExactMatches(secs, s)
        by_num == PrefixMatches(secs, s)
        fuzzy == FuzzyMatches(secs, s)
    IN  IF ~section_arg.given \/ section_arg.text = <<>> THEN Resolved(secs)
        ELSE IF exact # <<>> THEN Resolved(exact)
        ELSE IF IsDigitText(s) /\ Len(s) = 2
        THEN IF Len(by_num) = 1 THEN Resolved(by_num)
             ELSE IF Len(by_num) > 1 THEN Raised("ambiguous", by_num)
             ELSE Raised("no_number", <<>>)
        ELSE IF Len(fuzzy) = 1 THEN Resolved(fuzzy)
        ELSE IF Len(fuzzy) > 1 THEN Raised("ambiguous", fuzzy)
        ELSE Raised("not_found", <<>>)

iter_groups(f, section, strict_numbered) ==
    SortPaths(section,
              {p \in IterDir(f, section) :
                 /\ IsDir(f, p)
                 /\ ~StartsWith(BaseName(p), <<".">>)
                 /\ (strict_numbered => is_numbered_name(BaseName(p)))})

(***************************************************************************)
(* main of generate_scaffolding.py.                                        *)
(***************************************************************************)
Begin(f) == [fs |-> f, out |-> <<>>, acts |-> <<>>]

Ended(st, outcome) == [fs |-> st.fs, out |-> st.out, acts |-> st.acts, outcome |-> outcome]

\* the bulk loop over the groups gs of one section: only proto groups are exploded
RECURSIVE ExplodeProtoGroups(_, _, _, _)
ExplodeProtoGroups(st, gs, w, move_artifacts) ==
    IF gs = <<>> THEN st
    ELSE LET s1 == IF is_proto_group(st.fs, Head(gs))
                   THEN explode_group(st, Head(gs), w, move_artifacts)
                   ELSE st
         IN  ExplodeProtoGroups(s1, Tail(gs), w, move_artifacts)

RECURSIVE ExplodeSections(_, _, _, _)
ExplodeSections(st, secs, w, move_artifacts) ==
    IF secs = <<>> THEN st
    ELSE ExplodeSections(
             ExplodeProtoGroups(st, iter_groups(st.fs, Head(secs), TRUE), w, move_artifacts),
             Tail(secs), w, move_artifacts)

\* args: root, section, group, dry_run, force, no_move_artifacts
scaffold_main(f, args) ==
    LET w == [dry_run |-> args.dry_run, force |-> args.force]
        root == resolve_course_root(args.root)
        ar == resolve_assignments_root(f, root)
        move_artifacts == ~args.no_move_artifacts
        guard == ensure_under(ar.path, args.group.path)
        rs == resolve_sections(f, ar.path, args.section)
    IN  IF ~ar.ok THEN Ended(Begin(f), "no_assignments")
        ELSE IF args.group.given /\ args.group.path # <<>>
        THEN IF ~guard.ok THEN Ended(Begin(f), "refused")
             ELSE Ended(explode_group(Begin(f), guard.path, w, move_artifacts), "done")
        ELSE IF rs.kind # "ok" THEN Ended(Begin(f), rs.kind)
        ELSE Ended(ExplodeSections(Begin(f), rs.paths, w, move_artifacts), "done")

(***************************************************************************)
(* Metadata engine (generate_meta.py).  A record is a function from its    *)
(* keys to values; a value is None, an int, a str or a list of str.        *)
(***************************************************************************)
SCHEMA_VERSION == 1

DEFAULT_STATUS == <<"d","r","a","f","t">>

VNone == [t |-> "none", i |-> 0, s |-> <<>>, l |-> <<>>]

VInt(n) == [t |-> "int", i |-> n, s |-> <<>>, l |-> <<>>]

VStr(x) == [t |-> "str", i |-> 0, s |-> x, l |-> <<>>]

VList(xs) == [t |-> "list", i |-> 0, s |-> <<>>, l |-> xs]

\* the truth value Python gives a value in `a or b`
Truthy(v) ==
    CASE v.t = "none" -> FALSE
      [] v.t = "int" -> v.i # 0
      [] v.t = "str" -> v.s # <<>>
      [] OTHER -> v.l # <<>>

EmptyMeta == [k \in {} |-> VNone]

\* dict.get(k)
Get(d, k) == IF k \in DOMAIN d THEN d[k] ELSE VNone

\* a or b
OrElse(a, b) == IF Truthy(a) THEN a ELSE b

\* d[k] = v
Put(d, k, v) == [x \in DOMAIN d \cup {k} |-> IF x = k THEN v ELSE d[x]]

K_schema_version == <<"s","c","h","e","m","a","_","v","e","r","s","i","o","n">>

K_title == <<"t","i","t","l","e">>

K_type == <<"t","y","p","e">>

K_status == <<"s","t","a","t","u","s">>

K_due == <<"d","u","e">>

K_points == <<"p","o","i","n","t","s">>

K_notebooks == <<"n","o","t","e","b","o","o","k","s">>

K_files == <<"f","i","l","e","s">>

K_created_at == <<"c","r","e","a","t","e","d","_","a","t">>

K_updated_at == <<"u","p","d","a","t","e","d","_","a","t">>

\* now_iso() when the clock reads second t of the minute: isoformat(timespec="seconds")
now_iso(t) == <<"2","0","2","5","-","0","1","-","0","1","T","0","9",":","3","0",":">> \o Pad2(t) \o <<"-","0","6",":","0","0">>

infer_type(folder) ==
    LET n == Lower(BaseName(folder))
    IN  IF n = Lower(ASSESSMENTS_DIRNAME) THEN "assessment"
        ELSE IF n = Lower(RESOURCES_DIRNAME) THEN "resource"
        ELSE "assignment"

TypeText(ftype) ==
    CASE ftype = "assessment" -> <<"a","s","s","e","s","s","m","e","n","t">>
      [] ftype = "resource" -> <<"r","e","s","o","u","r","c","e">>
      [] OTHER -> <<"a","s","s","i","g","n","m","e","n","t">>

\* sorted names of folder.glob("*.ipynb") that are files
list_notebooks(f, folder) ==
    SortTexts({BaseName(p) : p \in {q \in IterDir(f, folder) :
                                      EndsWith(BaseName(q), IPYNB) /\ IsFile(f, q)}})

list_resource_files(f, folder) ==
    SortTexts({BaseName(p) : p \in {q \in IterDir(f, folder) :
                                      /\ IsFile(f, q)
                                      /\ BaseName(q) \notin PROTECTED_FILES
                                      /\ is_resource_file(f, q)}})

\* s.replace('"', '\\"')
RECURSIVE EscapeQuotes(_)
EscapeQuotes(s) ==
    IF s = <<>> THEN <<>>
    ELSE (IF Head(s) = "\"" THEN <<"\\", "\"">> ELSE <<Head(s)>>) \o EscapeQuotes(Tail(s))

yaml_quote(s) == IF ~HasChar(s, ":") THEN s ELSE <<"\"">> \o EscapeQuotes(s) \o <<"\"">>

KeyOrder ==
    << K_schema_version, K_title, K_type, K_status, K_due, K_points, K_notebooks, K_files,
       K_created_at, K_updated_at >>

RECURSIVE DumpItems(_)
DumpItems(items) ==
    IF items = <<>> THEN <<>>
    ELSE << <<" "," ","-"," ">> \o yaml_quote(Head(items)) >> \o DumpItems(Tail(items))

\* the lines dump_yaml appends for key k with value v
DumpField(k, v) ==
    CASE v.t = "none" -> << k \o <<":"," ","n","u","l","l">> >>
      [] v.t = "int" -> << k \o <<":"," ">> \o IntText(v.i) >>
      [] v.t = "list" -> << k \o <<":">> >> \o (IF v.l = <<>> THEN << <<" "," ","[","]">> >> ELSE DumpItems(v.l))
      [] OTHER -> << k \o <<":"," ">> \o yaml_quote(v.s) >>

RECURSIVE DumpKeys(_, _)
DumpKeys(meta, keys) ==
    IF keys = <<>> THEN <<>>
    ELSE (IF Head(keys) \in DOMAIN meta THEN DumpField(Head(keys), meta[Head(keys)]) ELSE <<>>)
         \o DumpKeys(meta, Tail(keys))

\* the lines of the text dump_yaml returns
dump_yaml(meta) == DumpKeys(meta, KeyOrder)

\* a variant of the parser's scalar step that leaves the quotes on
KeepQuotes(v) == v

\* the surrounding quotes of a scalar, stripped when both ends carry the same quote
Unquote(v) ==
    IF \/ (StartsWith(v, <<"\"">>) /\ EndsWith(v, <<"\"">>))
       \/ (StartsWith(v, <<"'">>) /\ EndsWith(v, <<"'">>))
    THEN SubSeq(v, 2, Len(v) - 1)
    ELSE v

\* the lines the loop of parse_existing_meta passes over
Skipped(raw) ==
    LET line == Strip(raw)
    IN  line = <<>> \/ StartsWith(line, <<"#">>) \/ ~HasChar(line, ":")

\* int(v) raises ValueError: v passed str.isdigit and holds a digit that is not decimal
LineRaises(raw) ==
    LET line == Strip(raw)
        i == MinOf({j \in DOMAIN line : line[j] = ":"})
        v == Strip(SubSeq(line, i + 1, Len(line)))
    IN  /\ ~Skipped(raw)
        /\ v # <<"n","u","l","l">>
        /\ IsDigitText(v)
        /\ \E j \in DOMAIN v : v[j] \notin DecimalDigits

\* one pass of the loop of parse_existing_meta, for a line on which int() does not raise
ParseLine(meta, raw) ==
    LET line == Strip(raw)
        i == MinOf({j \in DOMAIN line : line[j] = ":"})
        k == Strip(SubSeq(line, 1, i - 1))
        v == Strip(SubSeq(line, i + 1, Len(line)))
    IN  IF line = <<>> \/ StartsWith(line, <<"#">>) \/ ~HasChar(line, ":") THEN meta
        ELSE IF v = <<"n","u","l","l">> THEN Put(meta, k, VNone)
        ELSE IF IsDigitText(v) THEN Put(meta, k, VInt(ParseInt(v)))
        ELSE Put(meta, k, VStr(Unquote(v)))

RECURSIVE ParseLines(_, _)
ParseLines(meta, lines) ==
    IF lines = <<>> THEN meta ELSE ParseLines(ParseLine(meta, Head(lines)), Tail(lines))

\* the loop over the lines of a record's text: the exception of the first line
\* on which int() raises, else the dictionary returned
ParseText(lines) ==
    IF \E n \in DOMAIN lines : LineRaises(lines[n])
    THEN [raised |-> TRUE, meta |-> EmptyMeta]
    ELSE [raised |-> FALSE, meta |-> ParseLines(EmptyMeta, lines)]

parse_existing_meta(f, meta_path) ==
    IF ~Exists(f, meta_path) THEN EmptyMeta ELSE ParseLines(EmptyMeta, f[meta_path].text)

\* t1 and t2 are what the clock reads at the two calls of now_iso
build_meta(f, folder, existing, refresh, prune, t1, t2) ==
    LET ftype == infer_type(folder)
        title == OrElse(Get(existing, K_title), VStr(BaseName(folder)))
        created_at == OrElse(Get(existing, K_created_at), VStr(now_iso(t1)))
        updated_at == VStr(now_iso(t2))
        base == (K_schema_version :> OrElse(Get(existing, K_schema_version), VInt(SCHEMA_VERSION)))
                @@ (K_title :> title)
                @@ (K_type :> VStr(TypeText(ftype)))
                @@ (K_status :> OrElse(Get(existing, K_status), VStr(DEFAULT_STATUS)))
                @@ (K_created_at :> created_at)
                @@ (K_updated_at :> updated_at)
        graded == Put(Put(base, K_due, Get(existing, K_due)), K_points, Get(existing, K_points))
    IN  IF ftype \in {"assignment", "assessment"}
        THEN IF refresh \/ K_notebooks \notin DOMAIN existing \/ prune
             THEN Put(graded, K_notebooks, VList(list_notebooks(f, folder)))
             ELSE graded
        ELSE IF refresh \/ K_files \notin DOMAIN existing \/ prune
             THEN Put(base, K_files, VList(list_resource_files(f, folder)))
             ELSE base

\* a variant of Writer.write_text without the test of force
MetaWriter_write_text_unguarded(w, st, path, text) ==
    IF w.dry_run
    THEN [st EXCEPT !.out = Append(@, Act(IF Exists(st.fs, path) THEN "overwrite" ELSE "create",
                                          path, path))]
    ELSE [st EXCEPT !.fs = WriteText(MkdirP(@, Parent(path)), path, text),
                    !.out = Append(@, Act("write", path, path)),
                    !.acts = Append(@, Act("write", path, path))]

\* Writer.write_text of generate_meta.py
MetaWriter_write_text(w, st, path, text) ==
    IF Exists(st.fs, path) /\ ~w.force
    THEN IF w.show_existing THEN [st EXCEPT !.out = Append(@, Act("keep", path, path))] ELSE st
    ELSE IF w.dry_run
    THEN [st EXCEPT !.out = Append(@, Act(IF Exists(st.fs, path) THEN "overwrite" ELSE "create",
                                          path, path))]
    ELSE [st EXCEPT !.fs = WriteText(MkdirP(@, Parent(path)), path, text),
                    !.out = Append(@, Act("write", path, path)),
                    !.acts = Append(@, Act("write", path, path))]

should_have_meta(f, folder) ==
    LET ftype == infer_type(folder)
    IN  IF ftype = "assessment" THEN TRUE
        ELSE IF ftype = "resource"
        THEN list_resource_files(f, folder) # <<>> \/ list_notebooks(f, folder) # <<>>
        ELSE list_notebooks(f, folder) # <<>>

\* is_hidden_path: some segment of the absolute path starts with "."
is_hidden_path(p) == \E i \in DOMAIN p : StartsWith(p[i], <<".">>)

\* the compare of two paths: segment by segment
PathLeq(a, b) ==
    LET n == IF Len(a) < Len(b) THEN Len(a) ELSE Len(b)
        diff == {i \in 1..n : a[i] # b[i]}
    IN  IF diff = {} THEN Len(a) <= Len(b)
        ELSE TextLeq(a[MinOf(diff)], b[MinOf(diff)])

RECURSIVE SortPathSet(_)
SortPathSet(S) ==
    IF S = {} THEN <<>>
    ELSE LET m == CHOOSE x \in S : \A y \in S : PathLeq(x, y)
         IN  <<m>> \o SortPathSet(S \ {m})

\* sorted(sec.rglob("*")): every descendant of sec
RGlob(f, sec) == SortPathSet({p \in DOMAIN f : Len(p) > Len(sec) /\ SubSeq(p, 1, Len(sec)) = sec})

\* the folders of one section that walk_candidate_folders keeps
CandidatesIn(f, sec) ==
    SelectSeq(RGlob(f, sec),
              LAMBDA p : /\ IsDir(f, p)
                         /\ ~is_hidden_path(p)
                         /\ Lower(BaseName(p)) \notin LEGACY_DIRNAMES
                         /\ ~\E q \in Parents(p) : q # <<>> /\ Lower(BaseName(q)) \in LEGACY_DIRNAMES
                         /\ should_have_meta(f, p))

RECURSIVE CandidatesOf(_, _)
CandidatesOf(f, secs) ==
    IF secs = <<>> THEN <<>> ELSE CandidatesIn(f, Head(secs)) \o CandidatesOf(f, Tail(secs))

\* walk_candidate_folders: the kind of resolve_sections' failure, or the candidates
walk_candidate_folders(f, assignments_root, section_arg) ==
    LET rs == resolve_sections(f, assignments_root, section_arg)
    IN  IF rs.kind # "ok" THEN [kind |-> rs.kind, folders |-> <<>>]
        ELSE [kind |-> "ok", folders |-> CandidatesOf(f, rs.paths)]

\* a variant of select_single_assignment that settles for the first of several matches
select_first_assignment(folders, assignment) ==
    LET needle == Lower(Strip(assignment))
        matches == SelectSeq(folders,
                             LAMBDA p : \/ Lower(BaseName(p)) = needle
                                        \/ StartsWith(Lower(BaseName(p)), needle \o <<"-">>))
    IN  IF matches = <<>> THEN [kind |-> "no_match", folders |-> <<>>, named |-> SubSeq(folders, 1, IF Len(folders) < 25 THEN Len(folders) ELSE 25)]
        ELSE [kind |-> "ok", folders |-> <<Head(matches)>>, named |-> <<>>]

select_single_assignment(folders, assignment) ==
    LET needle == Lower(Strip(assignment))
        matches == SelectSeq(folders,
                             LAMBDA p : \/ Lower(BaseName(p)) = needle
                                        \/ StartsWith(Lower(BaseName(p)), needle \o <<"-">>))
    IN  IF matches = <<>> THEN [kind |-> "no_match", folders |-> <<>>, named |-> SubSeq(folders, 1, IF Len(folders) < 25 THEN Len(folders) ELSE 25)]
        ELSE IF Len(matches) > 1 THEN [kind |-> "multiple", folders |-> <<>>, named |-> matches]
        ELSE [kind |-> "ok", folders |-> matches, named |-> <<>>]

\* ensure_under of generate_meta.py
meta_ensure_under(assignments_root, target) ==
    LET t == Resolve(target)
        b == Resolve(assignments_root)
    IN  IF t = b \/ b \in Parents(t) THEN [ok |-> TRUE, path |-> t] ELSE [ok |-> FALSE, path |-> t]

\* lines 380-383 and 404-413 of main: one folder's record is rebuilt and written or printed
RegenerateFolder(st, folder, args, w, t1, t2, may_print) ==
    LET meta_path == Append(folder, META_NAME)
        existing == IF Exists(st.fs, meta_path) THEN parse_existing_meta(st.fs, meta_path)
                    ELSE EmptyMeta
        meta == build_meta(st.fs, folder, existing, args.refresh, args.prune, t1, t2)
    IN  IF may_print /\ args.print_only
        THEN [st EXCEPT !.out = Append(@, Act("print", folder, folder))]
        ELSE MetaWriter_write_text(w, st, meta_path, dump_yaml(meta))

\* the loop of main over the folders: the clock reads t1 once, then t2
RECURSIVE RegenerateAll(_, _, _, _, _, _)
RegenerateAll(st, folders, args, w, t1, t2) ==
    IF folders = <<>> THEN st
    ELSE RegenerateAll(RegenerateFolder(st, Head(folders), args, w, t1, t2, TRUE),
                       Tail(folders), args, w, t2, t2)

\* args: root, section, dry_run, force, refresh, prune, show_existing, create, path,
\* assignment, print_only
meta_main(f, args, t1, t2) ==
    LET course_root == resolve_course_root(args.root)
        ar == resolve_assignments_root(f, course_root)
        w == [dry_run |-> args.dry_run, force |-> args.force, show_existing |-> args.show_existing]
        target == meta_ensure_under(ar.path, args.path.path)
        walk == walk_candidate_folders(f, ar.path, args.section)
        sel == select_single_assignment(walk.folders, args.assignment.text)
        folders == IF args.assignment.given /\ args.assignment.text # <<>> THEN sel.folders
                   ELSE walk.folders
    IN  IF ~ar.ok THEN Ended(Begin(f), "no_assignments")
        ELSE IF args.create
        THEN IF ~args.path.given \/ args.path.path = <<>> THEN Ended(Begin(f), "create_needs_path")
             ELSE IF ~target.ok THEN Ended(Begin(f), "refused")
             ELSE IF ~IsDir(f, target.path) THEN Ended(Begin(f), "not_a_folder")
             ELSE Ended(RegenerateFolder(Begin(f), target.path, args, w, t1, t2, FALSE), "done")
        ELSE IF walk.kind # "ok" THEN Ended(Begin(f), walk.kind)
        ELSE IF walk.folders = <<>> THEN Ended(Begin(f), "no_candidates")
        ELSE IF args.assignment.given /\ args.assignment.text # <<>> /\ sel.kind # "ok"
        THEN Ended(Begin(f), sel.kind)
        ELSE Ended(RegenerateAll(Begin(f), folders, args, w, t1, t2), "done")

(***************************************************************************)
(* State.  fs is the filesystem; prev is the filesystem before the last    *)
(* run and last its arguments and outcome; report holds the lines the last *)
(* run printed and performed the mutating calls it made; clock is the      *)
(* second the wall clock reads; query and result are the last call of      *)
(* resolve_sections; call and value are the last call of one of the pure   *)
(* functions and what it returned.                                         *)
(***************************************************************************)
NoCall == [fn |-> "none", arg |-> <<>>]

NoRun ==
    [ op |-> "none", target |-> <<>>, dry_run |-> FALSE, force |-> FALSE, move |-> FALSE,
      refresh |-> FALSE, prune |-> FALSE, print_only |-> FALSE, outcome |-> "none" ]

MaxRootNotebooks == 2

MaxRootArtifacts == 1

MaxClock == 1

MaxEscapes == 2

RepoRoot == << <<"r","e","p","o">> >>

AssignmentsRoot == Append(RepoRoot, ASSIGNMENTS_DIRNAME)

SectionPath == Append(AssignmentsRoot, <<"0","2","-","C","o","r","e">>)

GroupPath == Append(SectionPath, <<"0","1","-","M","a","p","_","B","a","s","i","c","s">>)

\* the content of a file a user wrote at path p: one line naming where it was written
UserText(p) == << <<"w","r","i","t","t","e","n"," ","a","t"," ">> \o JoinWith(p, <<"/">>) >>

SubsetsUpTo(S, n) == {T \in SUBSET S : Cardinality(T) <= n}

\* the tree that holds the directories dirs and the files of the function files
\* (path to content), with every ancestor of each
Tree(dirs, files) ==
    LET all == dirs \cup DOMAIN files
        anc == UNION {Parents(p) : p \in all}
    IN  [p \in all \cup anc |-> IF p \in DOMAIN files THEN FileNode(files[p]) ELSE DirNode]

UserFiles(ps) == [p \in ps |-> UserText(p)]

Under(base, rels) == {base \o r : r \in rels}

(***************************************************************************)
(* Runs of the two entries.  A run sets prev, last, report and performed.  *)
(***************************************************************************)
\* one run of the scaffolding entry
ScaffoldRun(args) ==
    \E r \in {scaffold_main(fs, args)} :
        /\ fs' = r.fs
        /\ prev' = fs
        /\ report' = r.out
        /\ performed' = r.acts
        /\ last' = [NoRun EXCEPT !.op = "scaffold", !.target = args.group.path,
                                 !.dry_run = args.dry_run, !.force = args.force,
                                 !.move = ~args.no_move_artifacts, !.outcome = r.outcome]
        /\ UNCHANGED <<clock, query, result, call, value>>

ScaffoldArgs(group, section, Dry, Force, NoMove) ==
    { [root |-> RepoRoot, section |-> section, group |-> group, dry_run |-> d, force |-> o,
       no_move_artifacts |-> n] : d \in Dry, o \in Force, n \in NoMove }

\* one run of the metadata entry; both calls of now_iso read the same second
MetaRun(args) ==
    \E r \in {meta_main(fs, args, clock, clock)} :
        /\ fs' = r.fs
        /\ prev' = fs
        /\ report' = r.out
        /\ performed' = r.acts
        /\ last' = [NoRun EXCEPT !.op = IF args.create THEN "meta_create" ELSE "meta_bulk",
                                 !.target = args.path.path,
                                 !.dry_run = args.dry_run, !.force = args.force,
                                 !.refresh = args.refresh, !.prune = args.prune,
                                 !.print_only = args.print_only, !.outcome = r.outcome]
        /\ UNCHANGED <<clock, query, result, call, value>>

MetaArgs(create, path, Dry, Force, Refresh, Prune, PrintOnly) ==
    { [root |-> RepoRoot, section |-> NoArg, dry_run |-> d, force |-> o, refresh |-> r,
       prune |-> p, show_existing |-> FALSE, create |-> create, path |-> path,
       assignment |-> NoArg, print_only |-> q] :
        d \in Dry, o \in Force, r \in Refresh, p \in Prune, q \in PrintOnly }

\* the folders at or below the group that hold a file
ContentFolders(f) ==
    {p \in DOMAIN f : /\ IsDir(f, p)
                      /\ Len(p) >= Len(GroupPath) /\ SubSeq(p, 1, Len(GroupPath)) = GroupPath
                      /\ \E q \in IterDir(f, p) : IsFile(f, q)}

\* a second passes
Tick == clock < MaxClock /\ clock' = clock + 1 /\ UNCHANGED <<fs, prev, last, report, performed, query, result, call, value>>

\* nothing has run yet on tree f
Quiet(f) ==
    /\ fs = f
    /\ prev = f
    /\ last = NoRun
    /\ report = <<>>
    /\ performed = <<>>
    /\ clock = 0
    /\ query = NoArg
    /\ result = Resolved(<<>>)

Rest(f) == Quiet(f) /\ call = NoCall /\ value = FALSE

(***************************************************************************)
(* The scaffolding specification: one section with one group whose content *)
(* varies, and runs of the scaffolding entry on it.                        *)
(***************************************************************************)
NotebookPool == { <<"I","n","t","r","o","_","t","o","_","M","a","p","s",".","i","p","y","n","b">>, <<"a","-","b",".","i","p","y","n","b">>, <<"Q","u","i","z","_","1",".","i","p","y","n","b">>, <<"G","l","o","s","s","a","r","y",".","i","p","y","n","b">> }

ArtifactPool == { <<"d","a","t","a",".","c","s","v">>, <<"n","o","t","e","s",".","t","x","t">> }

\* what the group may already hold besides its loose files: [dirs, files], relative
ExistingPool ==
    { [dirs |-> {}, files |-> {}],
      [dirs |-> {<<LESSONS_DIRNAME, <<"0","1","-","F","o","o">>>>, <<LESSONS_DIRNAME, <<"0","3","-","B","a","r">>>>,
                 <<LESSONS_DIRNAME, <<"d","r","a","f","t">>>>},
       files |-> {<<README_NAME>>, << <<"M","A","P",".","P","N","G">> >>, <<LESSONS_DIRNAME, <<"0","3","-","B","a","r">>, <<"a","-","b",".","i","p","y","n","b">>>>,
                  <<LESSONS_DIRNAME, <<"0","4","-","n","o","t","e","s",".","m","d">>>>}],
      [dirs |-> {<<LESSONS_DIRNAME>>, <<ASSESSMENTS_DIRNAME>>, <<RESOURCES_DIRNAME>>},
       files |-> {<<ASSESSMENTS_DIRNAME, <<"Q","u","i","z","_","1",".","i","p","y","n","b">>>>, <<ASSESSMENTS_DIRNAME, META_NAME>>,
                  <<RESOURCES_DIRNAME, <<"d","a","t","a",".","c","s","v">>>>, <<RESOURCES_DIRNAME, <<"G","l","o","s","s","a","r","y",".","i","p","y","n","b">>>>}] }

GroupTree(nbs, arts, ex) ==
    Tree({GroupPath} \cup Under(GroupPath, ex.dirs),
         UserFiles(Under(GroupPath, {<<n>> : n \in nbs \cup arts} \cup ex.files)))

InitScaffold ==
    \E nbs \in SubsetsUpTo(NotebookPool, MaxRootNotebooks) :
    \E arts \in SubsetsUpTo(ArtifactPool, MaxRootArtifacts) :
    \E ex \in ExistingPool : Rest(GroupTree(nbs, arts, ex))

\* --group <the group>, every setting of the toggles
ExplodeOne ==
    \E args \in ScaffoldArgs(PathArg(GroupPath), NoArg, BOOLEAN, BOOLEAN, BOOLEAN) : ScaffoldRun(args)

\* bulk mode over the section "02", the toggles at their defaults
ExplodeBulk ==
    \E args \in ScaffoldArgs(NoPath, StrArg(<<"0","2">>), BOOLEAN, {FALSE}, {FALSE}) : ScaffoldRun(args)

NextScaffold == ExplodeOne \/ ExplodeBulk

SpecScaffold == InitScaffold /\ [][NextScaffold]_vars

(***************************************************************************)
(* The metadata specification: one content folder of the group, with or    *)
(* without a record, and runs of the metadata entry that write to disk.    *)
(***************************************************************************)
LessonPath == GroupPath \o <<LESSONS_DIRNAME, <<"0","1","-","I","n","t","r","o">>>>

KindFolder(kind) ==
    CASE kind = "assessment" -> GroupPath \o <<ASSESSMENTS_DIRNAME>>
      [] kind = "resource" -> GroupPath \o <<RESOURCES_DIRNAME>>
      [] OTHER -> LessonPath

KindFiles(kind) ==
    CASE kind = "assessment" -> { <<"Q","u","i","z","_","1",".","i","p","y","n","b">> }
      [] kind = "resource" -> { <<"d","a","t","a",".","c","s","v">>, <<"n","o","t","e","s",".","t","x","t">>, README_NAME }
      [] OTHER -> { <<"a",".","i","p","y","n","b">>, <<"b",".","i","p","y","n","b">> }

Kinds == {"assignment", "assessment", "resource"}

\* what a person may have typed after "title: "
TitlePool ==
    { <<"I","n","t","r","o">>, <<"a",":","b">>, <<"\"","a","\"",":","b">>, <<"\"","x","\"">>, <<"\"","\"","x","\"","\"">>, <<"0","0","7">>, <<"0">>, <<"n","u","l","l">> }

OldStamp == <<"\"","2","0","2","4","-","1","2","-","3","1","T","0","8",":","0","0",":","0","0","-","0","6",":","0","0","\"">>

\* a record as the tool writes it, its list naming one file of the folder
FullRecord(kind, title) ==
    << <<"s","c","h","e","m","a","_","v","e","r","s","i","o","n",":"," ","1">>, <<"t","i","t","l","e",":"," ">> \o title, <<"t","y","p","e",":"," ">> \o TypeText(kind),
       <<"s","t","a","t","u","s",":"," ","p","u","b","l","i","s","h","e","d">> >>
    \o (IF kind = "resource" THEN << <<"d","u","e",":"," ","2","0","2","5","-","0","2","-","0","1">>, <<"p","o","i","n","t","s",":"," ","1","0","0">>, <<"f","i","l","e","s",":">>, <<" "," ","-"," ","d","a","t","a",".","c","s","v">> >>
        ELSE << <<"d","u","e",":"," ","2","0","2","5","-","0","2","-","0","1">>, <<"p","o","i","n","t","s",":"," ","1","0","0">>, <<"n","o","t","e","b","o","o","k","s",":">>,
                << " ", " ", "-", " " >> \o (CHOOSE n \in KindFiles(kind) : \A m \in KindFiles(kind) : TextLeq(m, n)) >>)
    \o << <<"c","r","e","a","t","e","d","_","a","t",":"," ">> \o OldStamp, <<"u","p","d","a","t","e","d","_","a","t",":"," ">> \o OldStamp >>

TemplateRecord(kind) ==
    CASE kind = "assessment" -> tpl_meta_assessments
      [] kind = "resource" -> tpl_meta_resources
      [] OTHER -> tpl_meta_lesson(<<"I","n","t","r","o">>)

\* a record a person wrote with the list left open
NullListRecord(kind) ==
    << <<"t","i","t","l","e",":"," ","I","n","t","r","o">>, (IF kind = "resource" THEN K_files ELSE K_notebooks) \o <<":"," ","n","u","l","l">> >>

RecordPool(kind) ==
    {<< <<"t","i","t","l","e",":"," ">> \o t >> : t \in TitlePool}
    \cup {FullRecord(kind, t) : t \in TitlePool}
    \cup {TemplateRecord(kind), NullListRecord(kind)}

MetaTree(kind, records) ==
    LET folder == KindFolder(kind)
        loose == UserFiles(Under(folder, {<<n>> : n \in KindFiles(kind)}))
        metas == [p \in {Append(folder, META_NAME)} |-> CHOOSE r \in records : TRUE]
    IN  Tree({folder}, IF records = {} THEN loose ELSE loose @@ metas)

InitMeta ==
    \E kind \in Kinds :
        \/ Rest(MetaTree(kind, {}))
        \/ \E r \in RecordPool(kind) : Rest(MetaTree(kind, {r}))

\* the backslashes of the records on disk
RECURSIVE CountChar(_, _)
CountChar(s, c) == IF s = <<>> THEN 0 ELSE (IF Head(s) = c THEN 1 ELSE 0) + CountChar(Tail(s), c)

RECURSIVE SumOver(_, _)
SumOver(lines, c) == IF lines = <<>> THEN 0 ELSE CountChar(Head(lines), c) + SumOver(Tail(lines), c)

Escapes(f, folder) ==
    IF IsFile(f, Append(folder, META_NAME)) THEN SumOver(f[Append(folder, META_NAME)].text, "\\") ELSE 0

\* --create --path <folder>, writing to disk, every setting of the other toggles
CreateMeta ==
    \E folder \in ContentFolders(fs) :
        /\ Escapes(fs, folder) <= MaxEscapes
        /\ \E args \in MetaArgs(TRUE, PathArg(folder), {FALSE}, BOOLEAN, BOOLEAN, BOOLEAN, {FALSE}) :
               MetaRun(args)

\* bulk mode over every section, writing to disk
BulkMeta ==
    /\ \A folder \in ContentFolders(fs) : Escapes(fs, folder) <= MaxEscapes
    /\ \E args \in MetaArgs(FALSE, NoPath, {FALSE}, BOOLEAN, {FALSE}, {FALSE}, {FALSE}) : MetaRun(args)

NextMeta == CreateMeta \/ BulkMeta \/ Tick

SpecMeta == InitMeta /\ [][NextMeta]_vars

(***************************************************************************)
(* The containment specification: --group is given paths inside and        *)
(* outside the assignments folder, each an existing directory.             *)
(***************************************************************************)
OutsidePath == << <<"s","r","v">>, <<"0","1","-","O","t","h","e","r">> >>

SiblingPath == RepoRoot \o << <<"A","s","s","i","g","n","m","e","n","t","s","_","o","l","d">>, <<"0","1","-","K","e","p","t">> >>

\* the texts --group may carry, before resolution
GroupArgPool ==
    { GroupPath, SectionPath, AssignmentsRoot, RepoRoot, OutsidePath, SiblingPath,
      GroupPath \o << <<".",".">>, <<".",".">>, <<".",".">>, <<".",".">> >> \o OutsidePath,
      OutsidePath \o << <<".">>, <<".",".">>, <<".",".">> >> \o GroupPath,
      AssignmentsRoot \o << <<".",".">>, <<"A","s","s","i","g","n","m","e","n","t","s","_","o","l","d">>, <<"0","1","-","K","e","p","t">> >> }

GuardTree(nbs) ==
    Tree({GroupPath, OutsidePath, SiblingPath},
         UserFiles(Under(GroupPath, {<<n>> : n \in nbs})
                   \cup Under(OutsidePath, {<< <<"L","o","s","t",".","i","p","y","n","b">> >>})
                   \cup Under(SiblingPath, {<< <<"K","e","p","t",".","i","p","y","n","b">> >>, << <<"d","a","t","a",".","c","s","v">> >>})))

InitGuard == \E nbs \in SubsetsUpTo(NotebookPool, MaxRootNotebooks) : Rest(GuardTree(nbs))

ExplodeGiven ==
    \E g \in GroupArgPool :
    \E args \in ScaffoldArgs(PathArg(g), NoArg, BOOLEAN, {FALSE}, {FALSE}) : ScaffoldRun(args)

NextGuard == ExplodeGiven

SpecGuard == InitGuard /\ [][NextGuard]_vars

(***************************************************************************)
(* The simulate specification: both entries run with --dry-run on groups   *)
(* in every stage of scaffolding.                                          *)
(***************************************************************************)
InitSimulate ==
    \/ \E nbs \in SubsetsUpTo(NotebookPool, 1) :
       \E arts \in SubsetsUpTo(ArtifactPool, MaxRootArtifacts) :
       \E ex \in ExistingPool : Rest(GroupTree(nbs, arts, ex))
    \/ \E kind \in Kinds :
          \/ Rest(MetaTree(kind, {}))
          \/ \E r \in {<< <<"t","i","t","l","e",":"," ","\"","a","\"",":","b">> >>, FullRecord(kind, <<"I","n","t","r","o">>), TemplateRecord(kind)} :
                Rest(MetaTree(kind, {r}))

\* --group <the group> or bulk mode, with --dry-run
SimulateExplode ==
    \E args \in ScaffoldArgs(PathArg(GroupPath), NoArg, {TRUE}, BOOLEAN, BOOLEAN)
                \cup ScaffoldArgs(NoPath, NoArg, {TRUE}, BOOLEAN, BOOLEAN) : ScaffoldRun(args)

\* --create --path <folder> or bulk mode, with --dry-run
SimulateMeta ==
    \E args \in UNION {MetaArgs(TRUE, PathArg(folder), {TRUE}, BOOLEAN, BOOLEAN, {FALSE}, {FALSE}) :
                          folder \in ContentFolders(fs)}
                \cup MetaArgs(FALSE, NoPath, {TRUE}, BOOLEAN, {FALSE}, {FALSE}, BOOLEAN) : MetaRun(args)

NextSimulate == SimulateExplode \/ SimulateMeta

SpecSimulate == InitSimulate /\ [][NextSimulate]_vars

(***************************************************************************)
(* The resolution specification: an assignments folder with some sections, *)
(* and calls of resolve_sections with the text of --section.               *)
(***************************************************************************)
SectionPool == { <<"0","2","-","A","l","p","h","a">>, <<"1","2","-","B","e","t","a">>, <<"0","3","-","B","e","t","a","_","0","2">>, <<"0","2","-","A","l","p","h","a"," ">>, <<"2","1","-","a","l","p","h","a","b","e","t">> }

QueryPool ==
    { <<"0","2">>, <<"1","2">>, <<"0","3">>, <<"9","9">>, <<"2">>, <<"0","2","-","A","l","p","h","a">>, <<"0","2","-","A","l","p","h","a"," ">>, <<" ","0","2"," ">>, <<"1","2","-","B","e","t","a">>,
      <<"0","3","-","B","e","t","a","_","0","2">>, <<"2","1","-","a","l","p","h","a","b","e","t">>, <<"B","e","t","a">>, <<"a","l","p","h","a">>, <<"A","L","P","H","A">>, <<"z","z">>, <<" ">>, <<>> }

\* the sections, with a file and a folder that are not sections
SectionTree(names) ==
    Tree({AssignmentsRoot \o <<n>> : n \in names} \cup {AssignmentsRoot \o << <<"m","i","s","c">> >>},
         UserFiles({AssignmentsRoot \o << <<"0","4","-","F","i","l","e">> >>}))

InitResolve == \E names \in SUBSET SectionPool : Rest(SectionTree(names))

ResolveCall ==
    \E q \in QueryPool :
        /\ query' = StrArg(q)
        /\ result' = resolve_sections(fs, AssignmentsRoot, StrArg(q))
        /\ UNCHANGED <<fs, prev, last, report, performed, clock, call, value>>

\* --section left out
ResolveAll ==
    /\ query' = NoArg
    /\ result' = resolve_sections(fs, AssignmentsRoot, NoArg)
    /\ UNCHANGED <<fs, prev, last, report, performed, clock, call, value>>

NextResolve == ResolveCall \/ ResolveAll

SpecResolve == InitResolve /\ [][NextResolve]_vars

(***************************************************************************)
(* The naming specification: calls of the classifier's pure functions on   *)
(* notebook stems and on folder names, each from a state that holds the    *)
(* argument.                                                               *)
(***************************************************************************)
MaxStemParts == 2

MaxNameLen == 5

PartPool ==
    { <<>>, <<"q","u","i","z">>, <<"Q","u","i","z">>, <<"E","X","A","M">>, <<"m","i","n","i","q","u","i","z">>, <<"q","u","i","z","z","e","s">>, <<"G","l","o","s","s","a","r","y">>, <<"v","i","d","e","o","s">>,
      <<"i","n","t","r","o">> }

SeparatorPool == { <<>>, <<"_">>, <<"-">>, <<" ">> }

\* the stems made of up to n parts with a separator between two parts
RECURSIVE Stems(_)
Stems(n) ==
    IF n <= 1 THEN PartPool
    ELSE Stems(n - 1) \cup {a \o sep \o b : a \in Stems(n - 1), sep \in SeparatorPool, b \in PartPool}

StemPool == Stems(MaxStemParts)

NameAlphabet == {"2", "-", "F", ArabicTwo, "\n"}

\* the texts over alphabet A of length n at most
TextsUpTo(A, n) == UNION {[1..k -> A] : k \in 0..n}

NamePool == TextsUpTo(NameAlphabet, MaxNameLen)

\* a pure function is about to be called on the argument arg
Pending(arg) == [fn |-> "none", arg |-> arg]

EmptyRepo == Tree({RepoRoot}, UserFiles({}))

InitNames ==
    \E text \in StemPool \cup NamePool :
        Quiet(EmptyRepo) /\ call = Pending(text) /\ value = FALSE

Classify ==
    /\ call.fn = "none" /\ call.arg \in StemPool
    /\ \E stem \in {call.arg} :
        /\ call' = [fn |-> "classify_notebook_stem", arg |-> stem]
        /\ value' = classify_notebook_stem(stem)
        /\ UNCHANGED <<fs, prev, last, report, performed, clock, query, result>>

CheckName ==
    /\ call.fn = "none" /\ call.arg \in NamePool
    /\ \E name \in {call.arg} :
        /\ call' = [fn |-> "is_numbered_name", arg |-> name]
        /\ value' = is_numbered_name(name)
        /\ UNCHANGED <<fs, prev, last, report, performed, clock, query, result>>

NextNames == Classify \/ CheckName

SpecNames == InitNames /\ [][NextNames]_vars

(***************************************************************************)
(* The selection specification: calls of select_single_assignment on the   *)
(* folders a walk found and the text given with --assignment.              *)
(***************************************************************************)
MaxFolders == 3

OtherGroupPath == Append(SectionPath, <<"0","2","-","P","r","o","j","e","c","t","i","o","n","s">>)

FolderPool ==
    { Append(Append(GroupPath, LESSONS_DIRNAME), <<"0","1","-","I","n","t","r","o">>),
      Append(Append(GroupPath, LESSONS_DIRNAME), <<"0","1","0","-","E","x","t","r","a">>),
      Append(Append(GroupPath, LESSONS_DIRNAME), <<"0","2","-","M","a","p","s">>),
      Append(GroupPath, ASSESSMENTS_DIRNAME),
      Append(Append(OtherGroupPath, LESSONS_DIRNAME), <<"0","1","-","G","r","i","d","s">>),
      Append(OtherGroupPath, ASSESSMENTS_DIRNAME) }

IdentifierPool ==
    { <<"0","1">>, <<" ","0","1"," ">>, <<"0","1","-","I","n","t","r","o">>, <<"0","1","-","i","n","t","r","o">>, <<"0","1","-","I","N","T","R","O"," ">>, <<"0","2">>, <<"0">>, <<"0","1","0">>,
      <<"a","s","s","e","s","s","m","e","n","t","s">>, <<"I","n","t","r","o">>, <<" ">> }

InitSelect ==
    \E S \in SubsetsUpTo(FolderPool, MaxFolders) :
    \E text \in IdentifierPool :
        /\ Quiet(EmptyRepo)
        /\ call = Pending([folders |-> SortPathSet(S), assignment |-> text])
        /\ value = FALSE

Select ==
    /\ call.fn = "none"
    /\ \E a \in {call.arg} :
        /\ call' = [fn |-> "select_single_assignment", arg |-> a]
        /\ value' = select_single_assignment(a.folders, a.assignment)
        /\ UNCHANGED <<fs, prev, last, report, performed, clock, query, result>>

NextSelect == Select

SpecSelect == InitSelect /\ [][NextSelect]_vars

(***************************************************************************)
(* The print specification: runs of the metadata entry with --print, on    *)
(* each of its paths.                                                      *)
(***************************************************************************)
InitPrint ==
    \E kind \in Kinds :
        \/ Rest(MetaTree(kind, {}))
        \/ \E r \in {FullRecord(kind, <<"I","n","t","r","o">>), TemplateRecord(kind)} : Rest(MetaTree(kind, {r}))

\* --assignment <text> added to the arguments
WithAssignment(A, text) == {[a EXCEPT !.assignment = StrArg(text)] : a \in A}

\* --create --path <folder> --print
PrintCreate ==
    \E args \in UNION {MetaArgs(TRUE, PathArg(folder), BOOLEAN, BOOLEAN, BOOLEAN, {FALSE}, {TRUE}) :
                          folder \in ContentFolders(fs)} : MetaRun(args)

\* --print in bulk mode, over every folder or over the one --assignment names
PrintSelected ==
    \E args \in MetaArgs(FALSE, NoPath, BOOLEAN, BOOLEAN, BOOLEAN, {FALSE}, {TRUE})
                \cup WithAssignment(MetaArgs(FALSE, NoPath, BOOLEAN, BOOLEAN, {FALSE}, {FALSE}, {TRUE}),
                                    <<"0","1">>) : MetaRun(args)

NextPrint == PrintCreate \/ PrintSelected

SpecPrint == InitPrint /\ [][NextPrint]_vars

(***************************************************************************)
(* The round-trip specification: records as build_meta makes them, written *)
(* by dump_yaml, read by the loop of parse_existing_meta and written again. *)
(***************************************************************************)
MaxItems == 2

ItemPool == { <<"a",".","i","p","y","n","b">>, <<"b"," ","c",".","i","p","y","n","b">>, <<"x",":","y",".","c","s","v">> }

\* the lists of MaxItems items at most
ListPool == UNION {[1..k -> ItemPool] : k \in 0..MaxItems}

\* the record of a folder of the kind, with the list or (given FALSE) without it
MadeRecord(kind, title, due, list, given) ==
    LET base == (K_schema_version :> VInt(SCHEMA_VERSION))
                @@ (K_title :> VStr(title))
                @@ (K_type :> VStr(TypeText(kind)))
                @@ (K_status :> VStr(DEFAULT_STATUS))
                @@ (K_created_at :> VStr(now_iso(0)))
                @@ (K_updated_at :> VStr(now_iso(1)))
        graded == Put(Put(base, K_due, due), K_points, VNone)
    IN  IF kind = "resource"
        THEN (IF given THEN Put(base, K_files, VList(list)) ELSE base)
        ELSE (IF given THEN Put(graded, K_notebooks, VList(list)) ELSE graded)

MadePool ==
    {MadeRecord(kind, title, due, list, TRUE) :
        kind \in Kinds, title \in TitlePool \cup {<<"I","n","t","r","o"," ","t","o"," ","M","a","p","s">>},
        due \in {VNone, VStr(<<"2","0","2","5","-","0","2","-","0","1">>)}, list \in ListPool}
    \cup {MadeRecord(kind, title, VNone, <<>>, FALSE) : kind \in Kinds, title \in TitlePool}

InitRoundTrip ==
    \E meta \in MadePool : Quiet(EmptyRepo) /\ call = Pending(meta) /\ value = FALSE

\* dump_yaml, the parser's loop over the lines written, dump_yaml again
RoundTrip ==
    /\ call.fn = "none"
    /\ \E meta \in {call.arg} :
        /\ call' = [fn |-> "round_trip", arg |-> meta]
        /\ value' = [text |-> dump_yaml(meta),
                     again |-> dump_yaml(ParseLines(EmptyMeta, dump_yaml(meta)))]
        /\ UNCHANGED <<fs, prev, last, report, performed, clock, query, result>>

NextRoundTrip == RoundTrip

SpecRoundTrip == InitRoundTrip /\ [][NextRoundTrip]_vars


\* ---- parsing the text of a record ----

MaxLines == 2

\* lines a metadata file can hold: blank, comment, without separator, scalar
\* fields, a null, a quoted value, a list item, a value of non-decimal digits
LinePool ==
    { <<>>, <<" "," ">>, <<"#"," ","d","u","e",":"," ","5">>, <<"n","o","t","e","s">>, <<" "," ","-"," ","a",".","i","p","y","n","b">>,
      <<"t","i","t","l","e",":"," ","I","n","t","r","o">>, <<"p","o","i","n","t","s",":"," ","1","0","0">>, <<"d","u","e",":"," ","n","u","l","l">>, <<"t","i","t","l","e",":"," ","'","x","'">>,
      <<"p","o","i","n","t","s",":"," ">> \o <<SuperscriptTwo>> }

RECURSIVE LinesUpTo(_)
LinesUpTo(n) ==
    IF n = 0 THEN {<<>>}
    ELSE LinesUpTo(n - 1) \cup {Append(ls, l) : ls \in {x \in LinesUpTo(n - 1) : Len(x) = n - 1}, l \in LinePool}

TextPool == LinesUpTo(MaxLines)

InitParse ==
    \E lines \in TextPool : Quiet(EmptyRepo) /\ call = Pending(lines) /\ value = FALSE

\* parse_existing_meta on a file holding the lines
Parse ==
    /\ call.fn = "none"
    /\ \E lines \in {call.arg} :
        /\ call' = [fn |-> "parse_existing_meta", arg |-> lines]
        /\ value' = ParseText(lines)
        /\ UNCHANGED <<fs, prev, last, report, performed, clock, query, result>>

NextParse == Parse

SpecParse == InitParse /\ [][NextParse]_vars

\* ---- the walk over the folders of the sections ----

MaxEntries == 2

\* where the repository is checked out
RootPool == { << <<"r","e","p","o">> >>, << <<"h","o","m","e">>, <<".","w","o","r","k">>, <<"r","e","p","o">> >>, << <<"d","a","t","a">>, <<"N","o","t","e","b","o","o","k","s">>, <<"r","e","p","o">> >> }

UnitPath == << ASSIGNMENTS_DIRNAME, <<"0","1","-","U","n","i","t">> >>

\* folders and files of a section, relative to the repository root
EntryDirs == Under(UnitPath, { << <<"A","s","s","e","s","s","m","e","n","t","s">> >>, << <<"R","e","s","o","u","r","c","e","s">> >>, << <<"0","2","-","E","m","p","t","y">> >> })

EntryFiles ==
    Under(UnitPath,
          { << <<"0","1","-","L","e","s","s","o","n">>, <<"a",".","i","p","y","n","b">> >>,
            << <<".","c","a","c","h","e">>, <<"a",".","i","p","y","n","b">> >>,
            << <<"0","1","-","L","e","s","s","o","n">>, <<".","i","p","y","n","b","_","c","h","e","c","k","p","o","i","n","t","s">>, <<"a",".","i","p","y","n","b">> >>,
            << <<"n","o","t","e","b","o","o","k","s">>, <<"a",".","i","p","y","n","b">> >>,
            << <<"N","o","t","e","b","o","o","k","s">>, <<"0","1","-","O","l","d">>, <<"a",".","i","p","y","n","b">> >>,
            << <<"R","e","s","o","u","r","c","e","s">>, <<"d","a","t","a",".","c","s","v">> >>,
            << <<"R","e","s","o","u","r","c","e","s">>, <<"R","E","A","D","M","E",".","m","d">> >>,
            << <<"0","2","-","N","o","t","e","s">>, <<"n","o","t","e","s",".","t","x","t">> >> })

\* the checkout at root of the entries chosen, the section folder always there
Checkout(root, entries) ==
    Tree(Under(root, {UnitPath} \cup (entries \cap EntryDirs)),
         UserFiles(Under(root, entries \cap EntryFiles)))

InitWalk ==
    \E root \in RootPool, entries \in SubsetsUpTo(EntryDirs \cup EntryFiles, MaxEntries) :
        Quiet(Checkout(root, entries)) /\ call = Pending(root) /\ value = FALSE

\* walk_candidate_folders over every section of the checkout, the folders it
\* returns given relative to the repository root
Walk ==
    /\ call.fn = "none"
    /\ \E root \in {call.arg} :
        /\ call' = [fn |-> "walk_candidate_folders", arg |-> root]
        /\ \E r \in {walk_candidate_folders(fs, Append(root, ASSIGNMENTS_DIRNAME), NoArg)} :
            value' = {SubSeq(r.folders[i], Len(root) + 1, Len(r.folders[i])) : i \in DOMAIN r.folders}
        /\ UNCHANGED <<fs, prev, last, report, performed, clock, query, result>>

NextWalk == Walk

SpecWalk == InitWalk /\ [][NextWalk]_vars

\* ---- the overwrite guard of the two writers ----

\* the scaffolding entry on the group of a content folder, writing to disk, as
\* the first run on the tree
ExplodeRecorded ==
    /\ last.op = "none"
    /\ \E args \in ScaffoldArgs(PathArg(GroupPath), NoArg, {FALSE}, BOOLEAN, {FALSE}) : ScaffoldRun(args)

\* one run of the metadata entry on the tree as found or as scaffolded, writing
\* to disk: --create --path <folder> with every setting of force, refresh and
\* prune, or bulk mode with and without force
RegenerateOnce ==
    /\ last.op \in {"none", "scaffold"}
    /\ \E args \in UNION {MetaArgs(TRUE, PathArg(folder), {FALSE}, BOOLEAN, BOOLEAN, BOOLEAN, {FALSE}) :
                           folder \in ContentFolders(fs)}
                   \cup MetaArgs(FALSE, NoPath, {FALSE}, BOOLEAN, {FALSE}, {FALSE}, {FALSE}) :
           MetaRun(args)

NextOverwrite == ExplodeRecorded \/ RegenerateOnce

\* a content folder with or without a record, then at most one run of each
\* entry within one second
SpecOverwrite == InitMeta /\ [][NextOverwrite]_vars

\* ---- lesson folders for the notebooks of a group ----

MaxLessonNotebooks == 2

\* notebooks whose stems classify as lessons; two of them have the same slug
LessonNotebookPool == { <<"a","-","b",".","i","p","y","n","b">>, <<"a","_","b",".","i","p","y","n","b">>, <<"I","n","t","r","o","_","t","o","_","M","a","p","s",".","i","p","y","n","b">> }

\* the lesson folders the group may already hold
LessonsPool ==
    { {}, {<<LESSONS_DIRNAME, <<"0","1","-","F","o","o">>>>, <<LESSONS_DIRNAME, <<"0","3","-","B","a","r">>>>},
      {<<LESSONS_DIRNAME, <<"9","8","-","R","e","v","i","e","w">>>>}, {<<LESSONS_DIRNAME, <<"9","9","-","L","a","s","t">>>>} }

InitLessons ==
    \E nbs \in SubsetsUpTo(LessonNotebookPool, MaxLessonNotebooks) :
    \E dirs \in LessonsPool :
        Rest(GroupTree(nbs, {}, [dirs |-> dirs, files |-> {}]))

\* --group <the group>, writing to disk
ExplodeLessons ==
    \E args \in ScaffoldArgs(PathArg(GroupPath), NoArg, {FALSE}, BOOLEAN, BOOLEAN) : ScaffoldRun(args)

NextLessons == ExplodeLessons

SpecLessons == InitLessons /\ [][NextLessons]_vars
(***************************************************************************)
(* Properties.  A run is described by last (what was asked and how it      *)
(* ended), prev (the tree before it), fs (the tree after it), report (the  *)
(* lines of a dry run) and performed (the mutating calls made).            *)
(***************************************************************************)
MetaOps == {"meta_create", "meta_bulk"}

\* the last run was a metadata run that wrote to disk and ended normally
Wrote == last.op \in MetaOps /\ ~last.dry_run /\ last.outcome = "done"

\* the last run was a scaffolding run that wrote to disk and ended normally
Applied == last.op = "scaffold" /\ ~last.dry_run /\ last.outcome = "done"

FilesOf(f) == {p \in DOMAIN f : IsFile(f, p)}

RecordsIn(f) == {p \in FilesOf(f) : BaseName(p) = META_NAME}

StoredRecord(f, p) == parse_existing_meta(f, p)

HumanKeys == {K_title, K_status, K_due, K_points}

ListKey(p) == IF infer_type(Parent(p)) = "resource" THEN K_files ELSE K_notebooks

\* the items written under the line "key:" of a stored record
RECURSIVE ItemsFrom(_, _)
ItemsFrom(lines, i) ==
    IF i > Len(lines) \/ ~StartsWith(lines[i], <<" "," ","-"," ">>) THEN <<>>
    ELSE << SubSeq(lines[i], 5, Len(lines[i])) >> \o ItemsFrom(lines, i + 1)

StoredList(lines, key) ==
    LET at == {i \in DOMAIN lines : StartsWith(lines[i], key \o <<":">>)}
    IN  IF at = {} THEN <<>> ELSE ItemsFrom(lines, MinOf(at) + 1)

\* C1: with --dry-run no run of either tool changes the tree, whatever the other
\* toggles are: the tree after the run is the tree before it and no mutating call
\* was made.
C1_DryRunLeavesTree == last.dry_run => (fs = prev /\ performed = <<>>)

\* a dry run with --force that announced an overwrite and a move
C1_Witness ==
    /\ last.op = "scaffold" /\ last.dry_run /\ last.force
    /\ \E i \in DOMAIN report : report[i].op = "move"
    /\ \E i \in DOMAIN report : report[i].op = "overwrite"
    /\ fs = prev

\* C2: when a proto group has been exploded with overwrite off, a second run with
\* the same settings leaves the tree as the first run left it and creates, moves
\* and rewrites nothing.
C2_SecondRunChangesNothing ==
    [][ ( /\ Applied /\ ~last.force /\ is_proto_group(prev, GroupPath)
          /\ last'.op = "scaffold" /\ ~last'.dry_run /\ ~last'.force
          /\ last'.outcome = "done" /\ last'.move = last.move )
        => ( /\ fs' = fs
             /\ \A i \in DOMAIN performed' : performed'[i].op = "mkdir" ) ]_vars

\* a run with overwrite off that changed nothing, on a group whose lesson folder
\* holds a notebook that an earlier run took from the root of the group
C2_Witness ==
    /\ Applied /\ ~last.force /\ fs = prev
    /\ \E p \in FilesOf(fs) :
          /\ Len(p) = Len(GroupPath) + 3
          /\ SubSeq(p, 1, Len(GroupPath) + 1) = Append(GroupPath, LESSONS_DIRNAME)
          /\ fs[p].text = UserText(Append(GroupPath, BaseName(p)))

\* C3: with overwrite off a run of explode_group destroys nothing: every file of
\* the tree before the run is still there afterwards with its content, at its
\* path or under its name where it was moved to.
C3_NothingDestroyed ==
    (Applied /\ ~last.force) =>
        \A p \in FilesOf(prev) :
            \E q \in FilesOf(fs) : BaseName(q) = BaseName(p) /\ fs[q].text = prev[p].text

\* the resolved target is the resolved assignments folder or lies below it
Inside(target) ==
    LET b == Resolve(AssignmentsRoot)
        t == Resolve(target)
    IN  t = b \/ (Len(b) < Len(t) /\ SubSeq(t, 1, Len(b)) = b)

\* C4: a run with --group is refused exactly when the resolved path is neither the
\* resolved assignments folder nor below it, and a refused run has made no create,
\* write or move.
C4_GuardRefusesOutside ==
    (last.op = "scaffold" /\ last.target # <<>>) =>
        /\ (last.outcome = "refused") <=> ~Inside(last.target)
        /\ (last.outcome = "refused") => (fs = prev /\ performed = <<>> /\ report = <<>>)

\* a refused run that would have written: its path starts with the assignments
\* folder as text and leads to a proto group outside it
C4_Witness ==
    /\ last.op = "scaffold" /\ ~last.dry_run /\ last.outcome = "refused"
    /\ Len(last.target) > Len(AssignmentsRoot)
    /\ SubSeq(last.target, 1, Len(AssignmentsRoot)) = AssignmentsRoot
    /\ is_proto_group(fs, Resolve(last.target))

\* C5: a regeneration without refresh or prune keeps title, status, due and points
\* of every stored record: read back, each field that had a value has that value.
C5_HumanFieldsKept ==
    (Wrote /\ ~last.refresh /\ ~last.prune) =>
        \A p \in RecordsIn(prev) :
            \A k \in {h \in HumanKeys : Truthy(Get(StoredRecord(prev, p), h))} :
                /\ p \in RecordsIn(fs)
                /\ k \in DOMAIN StoredRecord(fs, p)
                /\ StoredRecord(fs, p)[k] = StoredRecord(prev, p)[k]

\* C6: once a stored record carries created_at, every regeneration keeps that
\* value, whatever refresh and prune are.
C6_CreatedAtWriteOnce ==
    Wrote =>
        \A p \in RecordsIn(prev) :
            Truthy(Get(StoredRecord(prev, p), K_created_at)) =>
                /\ p \in RecordsIn(fs)
                /\ Get(StoredRecord(fs, p), K_created_at) = Get(StoredRecord(prev, p), K_created_at)

\* a record stamped in second 0 is rewritten in second 1: created_at stays,
\* updated_at moves
C6_Witness ==
    /\ Wrote /\ last.force /\ clock = 1
    /\ \E p \in RecordsIn(prev) \cap RecordsIn(fs) :
          /\ Get(StoredRecord(prev, p), K_created_at) = VStr(now_iso(0))
          /\ Get(StoredRecord(prev, p), K_updated_at) = VStr(now_iso(0))
          /\ Get(StoredRecord(fs, p), K_created_at) = VStr(now_iso(0))
          /\ Get(StoredRecord(fs, p), K_updated_at) = VStr(now_iso(1))

\* C7: a regeneration without refresh or prune of a record that has a notebooks
\* list (a files list in a resource folder) writes a record with that list, the
\* same items in the same order.
C7_ListKept ==
    (Wrote /\ ~last.refresh /\ ~last.prune) =>
        \A p \in RecordsIn(prev) :
            ListKey(p) \in DOMAIN StoredRecord(prev, p) =>
                /\ p \in RecordsIn(fs)
                /\ ListKey(p) \in DOMAIN StoredRecord(fs, p)
                /\ StoredList(fs[p].text, ListKey(p)) = StoredList(prev[p].text, ListKey(p))

(***************************************************************************)
(* Section resolution: the three steps, as sets of section names.          *)
(***************************************************************************)
SectionNames == SeqToSet(Names(list_sections(fs, AssignmentsRoot)))

Asked == Strip(query.text)

NonEmptyQuery == query.given /\ query.text # <<>>

TwoDigit(q) == Len(q) = 2 /\ IsDigitText(q)

ExactSet(q) == {n \in SectionNames : n = q}

PrefixSet(q) == {n \in SectionNames : StartsWith(n, q \o <<"-">>)}

SubstrSet(q) == {n \in SectionNames : Contains(Lower(n), Lower(q))}

ResultNames == SeqToSet(Names(result.paths))

NotFound == result.kind \in {"no_number", "not_found"}

Found(S) == result.kind = "ok" /\ Len(result.paths) = 1 /\ ResultNames = S

\* C8 as stated: a step with no match hands over to the next, "not found" is
\* raised only when all three steps match nothing, and a two-digit text that no
\* NN- prefix matches is resolved by the substring step.
C8_FallsThroughToSubstring ==
    NonEmptyQuery =>
        /\ NotFound => /\ ExactSet(Asked) = {}
                       /\ TwoDigit(Asked) => PrefixSet(Asked) = {}
                       /\ SubstrSet(Asked) = {}
        /\ ( /\ TwoDigit(Asked) /\ ExactSet(Asked) = {} /\ PrefixSet(Asked) = {}
             /\ Cardinality(SubstrSet(Asked)) = 1 ) => Found(SubstrSet(Asked))

\* C8 amended: the exact step hands over when it matches nothing; then a text of
\* two digits is decided by the NN- prefix step alone ("not found" when no name
\* starts with it, whatever the names contain), and any other text by the
\* substring step alone.
C8_TwoDigitsStopAtPrefix ==
    NonEmptyQuery =>
        /\ ExactSet(Asked) # {} => Found(ExactSet(Asked))
        /\ (ExactSet(Asked) = {} /\ TwoDigit(Asked)) =>
              /\ PrefixSet(Asked) = {} => result.kind = "no_number"
              /\ Cardinality(PrefixSet(Asked)) = 1 => Found(PrefixSet(Asked))
        /\ (ExactSet(Asked) = {} /\ ~TwoDigit(Asked)) =>
              /\ SubstrSet(Asked) = {} => result.kind = "not_found"
              /\ Cardinality(SubstrSet(Asked)) = 1 => Found(SubstrSet(Asked))
        /\ NotFound => /\ ExactSet(Asked) = {}
                       /\ IF TwoDigit(Asked) THEN PrefixSet(Asked) = {} ELSE SubstrSet(Asked) = {}

\* two digits that no name starts with but one name contains: not found
C8_Witness ==
    /\ NonEmptyQuery /\ TwoDigit(Asked)
    /\ result.kind = "no_number"
    /\ Cardinality(SubstrSet(Asked)) = 1

\* C9 as stated: a text equal to the full name of a section resolves to that
\* section alone, and two digits with one NN- prefix match resolve to that match
\* alone.
C9_ExactNameWins ==
    NonEmptyQuery =>
        /\ query.text \in SectionNames => Found({query.text})
        /\ (TwoDigit(query.text) /\ Cardinality(PrefixSet(query.text)) = 1) =>
              Found(PrefixSet(query.text))

\* C9 amended: the same for a text without leading or trailing whitespace (the
\* text is stripped before it is compared).
C9_ExactStrippedNameWins ==
    NonEmptyQuery =>
        /\ (query.text \in SectionNames /\ query.text = Strip(query.text)) => Found({query.text})
        /\ (TwoDigit(query.text) /\ Cardinality(PrefixSet(query.text)) = 1) =>
              Found(PrefixSet(query.text))

\* a full name that another section's name contains resolves to its own section
C9_Witness ==
    /\ NonEmptyQuery /\ query.text \in SectionNames
    /\ Cardinality(SubstrSet(query.text)) >= 2
    /\ Found({query.text})

\* C10: a non-empty text never resolves to more than one section: when the
\* deciding step (prefix for two digits, substring otherwise) matches two or more,
\* the call fails as ambiguous and its message names every match.
C10_AtMostOneSection ==
    NonEmptyQuery =>
        LET deciding == IF TwoDigit(Asked) THEN PrefixSet(Asked) ELSE SubstrSet(Asked)
        IN  /\ Len(result.paths) <= 1
            /\ (ExactSet(Asked) = {} /\ Cardinality(deciding) >= 2) =>
                  /\ result.kind = "ambiguous"
                  /\ result.paths = <<>>
                  /\ SeqToSet(result.named) = deciding
                  /\ Len(result.named) = Cardinality(deciding)

\* a substring carried by two sections: ambiguous, both named
C10_Witness ==
    /\ NonEmptyQuery /\ ~TwoDigit(Asked)
    /\ result.kind = "ambiguous"
    /\ Len(result.named) >= 2

(***************************************************************************)
(* Preview, routing and numbering of the scaffolding entry.                *)
(***************************************************************************)
\* the last run was a scaffolding run in simulate mode that ended normally
Simulated == last.op = "scaffold" /\ last.dry_run /\ last.outcome = "done"

\* C11: a simulate run previews the apply run exactly: when an apply run follows a
\* simulate run of the same request (same target, overwrite and move settings) on
\* the tree the simulate run saw, the creations, writes and moves it performs are,
\* in order and with the same paths, the ones the simulate run reported, lesson
\* folder numbers included.
C11_SimulatePreviewsApply ==
    [][ ( /\ Simulated
          /\ last'.op = "scaffold" /\ ~last'.dry_run /\ last'.outcome = "done"
          /\ last'.target = last.target /\ last'.force = last.force
          /\ last'.move = last.move )
        => performed' = report ]_vars

\* the notebooks directly at the root of the group in tree f
RootNotebooks(f) == SeqToSet(root_level_notebooks(f, GroupPath))

\* where a notebook of kind k is after the pass: the folder that holds it
RoutedTo(f, nb, k) ==
    LET gp == group_paths(GroupPath)
    IN  IF k = "assessment" THEN {gp.assessments}
        ELSE IF k = "resource" THEN {gp.resources}
        ELSE {d \in IterDir(f, gp.lessons) : IsDir(f, d)}

\* C12: one apply run scaffolds the group: afterwards no notebook is directly at
\* the root of the group, and every notebook that was there is, with its content,
\* in Assessments/ when its stem classifies as assessment, in Resources/ when
\* resource, and otherwise in a folder directly under Lessons/.
C12_OnePassScaffolds ==
    Applied =>
        /\ ~is_proto_group(fs, GroupPath)
        /\ \A nb \in RootNotebooks(prev) :
              \E d \in RoutedTo(fs, nb, classify_notebook_stem(Stem(BaseName(nb)))) :
                  /\ IsFile(fs, Append(d, BaseName(nb)))
                  /\ fs[Append(d, BaseName(nb))].text = prev[nb].text

\* a pass that routed an assessment notebook and a lesson notebook away from the
\* root, the lesson folder numbered after the folders already there
C12_Witness ==
    /\ Applied
    /\ ~is_proto_group(fs, GroupPath)
    /\ \E a, b \in RootNotebooks(prev) :
          /\ classify_notebook_stem(Stem(BaseName(a))) = "assessment"
          /\ classify_notebook_stem(Stem(BaseName(b))) = "lesson"
          /\ IsFile(fs, Append(Append(GroupPath, ASSESSMENTS_DIRNAME), BaseName(a)))
          /\ \E d \in IterDir(fs, Append(GroupPath, LESSONS_DIRNAME)) :
                /\ StartsWith(BaseName(d), <<"0","4","-">>)
                /\ IsFile(fs, Append(d, BaseName(b)))

LessonsPath == Append(GroupPath, LESSONS_DIRNAME)

\* the numbers NN of the folders named NN-rest (rest not empty) directly under Lessons/
LessonNumbers(f) ==
    {n \in 0..99 : \E d \in DOMAIN f :
                      /\ Len(d) = Len(LessonsPath) + 1 /\ Parent(d) = LessonsPath
                      /\ f[d].kind = "dir"
                      /\ Len(BaseName(d)) >= 4
                      /\ SubSeq(BaseName(d), 1, 3) = <<DigitSeq[(n \div 10) + 1], DigitSeq[(n % 10) + 1], "-">>}

ExpectedNext(f) ==
    IF LessonNumbers(f) = {} THEN 1
    ELSE CHOOSE n \in 1..100 : (n - 1) \in LessonNumbers(f) /\ \A m \in LessonNumbers(f) : m < n

\* the lesson folders an apply run made, in the order it made them
LessonFoldersMade(acts) ==
    SelectSeq(acts, LAMBDA a : a.op = "mkdir" /\ Len(a.dst) = Len(LessonsPath) + 1
                               /\ Parent(a.dst) = LessonsPath)

\* C13: the number given to a new lesson folder is the greatest two-digit prefix of
\* the well-formed folders under Lessons/ plus one, or 1 when Lessons/ is missing
\* or holds no such folder; files and badly named folders do not count, and each
\* folder made raises the greatest prefix by one for the next.
C13_NextNumberIsMaxPlusOne ==
    [][ (last'.op = "scaffold" /\ ~last'.dry_run /\ last'.outcome = "done") =>
          LET made == LessonFoldersMade(performed')
          IN  \A k \in DOMAIN made :
                  SubSeq(BaseName(made[k].dst), 1, 3) = Pad2(ExpectedNext(fs) + k - 1) \o <<"-">> ]_vars

\* Lessons/ held 01-Foo, 03-Bar, the folder draft and the file 04-notes.md, and the
\* run made a folder numbered 04
C13_Witness ==
    /\ Applied
    /\ LessonNumbers(prev) = {1, 3}
    /\ IsDir(prev, Append(LessonsPath, <<"d","r","a","f","t">>))
    /\ IsFile(prev, Append(LessonsPath, <<"0","4","-","n","o","t","e","s",".","m","d">>))
    /\ \E i \in DOMAIN performed :
          /\ performed[i].op = "mkdir"
          /\ Parent(performed[i].dst) = LessonsPath
          /\ StartsWith(BaseName(performed[i].dst), <<"0","4","-">>)

(***************************************************************************)
(* Classification of stems and names.                                      *)
(***************************************************************************)
LowerAlnum == Digits \cup LowerLetters

\* the lowercase alphanumeric tokens of a text: the maximal runs of letters and
\* digits of the text in lower case
TokensOf(s) ==
    LET l == Lower(s)
        runs == {p \in (DOMAIN l) \X (DOMAIN l) :
                    /\ p[1] <= p[2]
                    /\ \A k \in p[1]..p[2] : l[k] \in LowerAlnum
                    /\ (p[1] = 1 \/ l[p[1] - 1] \notin LowerAlnum)
                    /\ (p[2] = Len(l) \/ l[p[2] + 1] \notin LowerAlnum)}
    IN  {SubSeq(l, p[1], p[2]) : p \in runs}

Classified == call.fn = "classify_notebook_stem"

\* C14: classify_notebook_stem gives every stem exactly one of assessment,
\* resource, lesson: assessment exactly when a token of the stem is an assessment
\* keyword, resource exactly when none is and a token is a resource keyword, lesson
\* otherwise; a stem with both kinds of keyword is an assessment.
C14_ClassifyTotalPrioritised ==
    Classified =>
        LET a == TokensOf(call.arg) \cap ASSESSMENT_KEYWORDS # {}
            r == TokensOf(call.arg) \cap ResourceTokens # {}
        IN  /\ value \in {"assessment", "resource", "lesson"}
            /\ (value = "assessment") <=> a
            /\ (value = "resource") <=> (~a /\ r)
            /\ (value = "lesson") <=> (~a /\ ~r)

\* a stem that carries a resource keyword and then an assessment keyword
C14_Witness ==
    /\ Classified
    /\ call.arg = <<"G","l","o","s","s","a","r","y","_","Q","u","i","z">>
    /\ TokensOf(call.arg) \cap ResourceTokens # {}
    /\ value = "assessment"

\* C15: is_numbered_name(s) is true exactly when s is two ASCII digits, then a
\* dash, then a remainder that is not empty.
C15_WellFormedIffTwoAsciiDigits ==
    call.fn = "is_numbered_name" =>
        ( value <=> ( /\ Len(call.arg) >= 4
                      /\ call.arg[1] \in Digits
                      /\ call.arg[2] \in Digits
                      /\ call.arg[3] = "-" ) )

(***************************************************************************)
(* Stamps of the metadata entry.                                           *)
(***************************************************************************)
\* the records the last run wrote
WrittenRecords == {performed[i].dst : i \in {j \in DOMAIN performed : performed[j].op = "write"}}

\* stamp a is later than stamp b: both in the format of now_iso, where the order
\* of the texts is the order of the times
LaterStamp(a, b) == a # b /\ TextLeq(b, a)

\* C16: a regeneration sets updated_at to the time it runs at, and that stamp is
\* strictly later than the updated_at of the record it was built from.  (A step
\* that leaves the clock alone is a run of the entry.)
C16_UpdatedAtStrictlyLater ==
    [][ (clock' = clock /\ Wrote') =>
          \A p \in WrittenRecords' :
              /\ Get(StoredRecord(fs', p), K_updated_at) = VStr(now_iso(clock))
              /\ (p \in RecordsIn(fs) /\ Truthy(Get(StoredRecord(fs, p), K_updated_at))) =>
                    LaterStamp(Get(StoredRecord(fs', p), K_updated_at).s,
                               Get(StoredRecord(fs, p), K_updated_at).s) ]_vars

(***************************************************************************)
(* Selection of one assignment folder.                                     *)
(***************************************************************************)
Selected == call.fn = "select_single_assignment"

\* the positions of the folders whose name, in lower case, is the text id in lower
\* case or starts with it and a dash
MatchesOf(folders, id) ==
    {i \in DOMAIN folders :
        \/ Lower(BaseName(folders[i])) = Lower(id)
        \/ StartsWith(Lower(BaseName(folders[i])), Lower(id) \o <<"-">>)}

\* the call returned the one folder at the positions M, or failed naming candidates
SelectsOnly(M) ==
    LET folders == call.arg.folders
    IN  /\ Cardinality(M) = 1 =>
              /\ value.kind = "ok"
              /\ value.folders = <<folders[CHOOSE i \in M : TRUE]>>
        /\ M = {} =>
              /\ value.kind = "no_match" /\ value.folders = <<>>
              /\ value.named = folders
        /\ Cardinality(M) > 1 =>
              /\ value.kind = "multiple" /\ value.folders = <<>>
              /\ SeqToSet(value.named) = {folders[i] : i \in M}
              /\ Len(value.named) = Cardinality(M)

\* C17 as stated: the match is against the identifier as given.
C17_SelectsTheOnlyMatch == Selected => SelectsOnly(MatchesOf(call.arg.folders, call.arg.assignment))

\* C17 amended: the match is against the identifier stripped of the whitespace
\* around it; exactly one match is returned alone, none or several fail with an
\* error that names the folders seen or the matches, and nothing is returned.
C17_SelectsTheOnlyStrippedMatch ==
    Selected => SelectsOnly(MatchesOf(call.arg.folders, Strip(call.arg.assignment)))

\* "01" among the folders 01-Intro, 010-Extra and 02-Maps selects 01-Intro alone
C17_Witness ==
    /\ Selected
    /\ call.arg.assignment = <<"0","1">>
    /\ Len(call.arg.folders) = 3
    /\ \E i \in DOMAIN call.arg.folders : BaseName(call.arg.folders[i]) = <<"0","1","0","-","E","x","t","r","a">>
    /\ value.kind = "ok"
    /\ Len(value.folders) = 1
    /\ BaseName(value.folders[1]) = <<"0","1","-","I","n","t","r","o">>

(***************************************************************************)
(* Print-only runs and the lists of a record.                              *)
(***************************************************************************)
\* C18: with --print the metadata entry writes nothing, on the bulk path, the
\* single-assignment path and the --create --path path alike, whatever the other
\* toggles are.
C18_PrintOnlyWritesNothing ==
    (last.op \in MetaOps /\ last.print_only) => (fs = prev /\ performed = <<>>)

ReservedNames == {META_NAME, HEADER_NAME, AUTOGEN_NAME, README_NAME}

\* the names the list of the record of folder should hold, sorted: the notebook
\* files of the folder, or in a resource folder its resource artifacts without
\* the reserved names
ExpectedList(f, folder) ==
    LET files == {q \in DOMAIN f : Len(q) = Len(folder) + 1 /\ Parent(q) = folder /\ f[q].kind = "file"}
    IN  IF infer_type(folder) = "resource"
        THEN SortTexts({BaseName(q) : q \in {x \in files :
                            /\ BaseName(x) \notin ReservedNames
                            /\ \E e \in RESOURCE_EXTENSIONS : EndsWith(Lower(BaseName(x)), e)}})
        ELSE SortTexts({BaseName(q) : q \in {x \in files : EndsWith(BaseName(x), IPYNB)}})

\* the record before the run had no list under key, or had null there
ListAbsent(old, key) == key \notin DOMAIN old \/ old[key] = VNone

\* C19: a regeneration with refresh or prune, or of a record whose list is absent
\* (a stored null counts as absent), writes the list from the folder: notebooks as
\* the sorted names of its notebook files, files as the sorted names of its
\* resource artifacts without the four reserved names.
C19_ListRecomputed ==
    Wrote =>
        \A p \in WrittenRecords :
            (last.refresh \/ last.prune \/ ListAbsent(StoredRecord(prev, p), ListKey(p))) =>
                /\ \E i \in DOMAIN fs[p].text : fs[p].text[i] = ListKey(p) \o <<":">>
                /\ StoredList(fs[p].text, ListKey(p)) = ExpectedList(prev, Parent(p))

(***************************************************************************)
(* Serialization.                                                          *)
(***************************************************************************)
\* the keys of the field lines of a text, in the order of the lines
KeysIn(lines) ==
    LET fields == SelectSeq(lines, LAMBDA l : l # <<>> /\ l[1] # " " /\ HasChar(l, ":"))
    IN  [i \in DOMAIN fields |-> SubSeq(fields[i], 1, MinOf({j \in DOMAIN fields[i] : fields[i][j] = ":"}) - 1)]

\* the keys come in the order of KeyOrder, each once at most
InFixedOrder(keys) ==
    \A i, j \in DOMAIN keys :
        i < j => \E a, b \in DOMAIN KeyOrder : a < b /\ KeyOrder[a] = keys[i] /\ KeyOrder[b] = keys[j]

\* C20: for every record the serializer can be given (scalars, nulls, empty and
\* non-empty lists), the text it writes has its keys in the fixed order, and
\* parsing that text and serializing the parsed record gives the same text.
C20_RoundTripSameText ==
    call.fn = "round_trip" =>
        /\ InFixedOrder(KeysIn(value.text))
        /\ value.again = value.text


\* ---- parsing never fails (C21) ----

\* the lines of a text that are not blank, comment or separator-free
FieldLines(lines) == SelectSeq(lines, LAMBDA l : ~Skipped(l))

Parsed == call.fn = "parse_existing_meta"

\* C21: for every sequence of lines the parser returns a record; a text of
\* blank, comment and separator-free lines gives the empty record, and the
\* record of any text is the record of its other lines alone.
C21_ParseNeverFails ==
    Parsed =>
        /\ ~value.raised
        /\ (FieldLines(call.arg) = <<>> => value.meta = EmptyMeta)
        /\ value.meta = ParseText(FieldLines(call.arg)).meta

\* ---- the candidate folders of a walk (C22) ----

Walked == call.fn = "walk_candidate_folders"

\* the folders below the sections of the checkout at root, relative to root
SectionFolders(f, root) ==
    {SubSeq(p, Len(root) + 1, Len(p)) :
        p \in {q \in DOMAIN f : /\ IsDir(f, q)
                                /\ Len(q) > Len(root) + 2
                                /\ SubSeq(q, 1, Len(root)) = root
                                /\ SubSeq(q, 1, Len(root) + 2) = root \o UnitPath}}

\* no segment from the content container down is hidden, and no segment below
\* the content container names a legacy container
Eligible(rel) ==
    /\ \A i \in DOMAIN rel : ~StartsWith(rel[i], <<".">>)
    /\ \A i \in DOMAIN rel : i > 1 => Lower(rel[i]) \notin LEGACY_DIRNAMES

\* C22: the walk over all sections returns exactly the folders below a section
\* that have no hidden segment from the content container down, no legacy
\* container at or above them below the content container, and for which
\* should_have_meta holds, wherever the repository root lies on disk.
C22_WalkReturnsEligibleFolders ==
    Walked =>
        value = {rel \in SectionFolders(fs, call.arg) :
                    Eligible(rel) /\ should_have_meta(fs, call.arg \o rel)}

\* ---- root artifacts go to Resources/ (C23) ----

\* the last run applied explode_group to the group: named by --group, or found
\* as a proto group by the bulk mode
Exploded == Applied /\ (last.target = GroupPath \/ is_proto_group(prev, GroupPath))

RootFiles(f) == {p \in IterDir(f, GroupPath) : IsFile(f, p)}

Reserved(p) == BaseName(p) \in PROTECTED_FILES

Notebook(p) == Suffix(BaseName(p)) = IPYNB

AllowListed(p) == Lower(Suffix(BaseName(p))) \in RESOURCE_EXTENSIONS

InResources(p) == Append(Append(GroupPath, RESOURCES_DIRNAME), BaseName(p))

\* the file that was at p is, with its content, at q and no longer at p
MovedTo(p, q) == ~Exists(fs, p) /\ IsFile(fs, q) /\ fs[q].text = prev[p].text

\* C23: after an apply run of explode_group with move_artifacts on, every file
\* that was at the group root, is not reserved, not a notebook and has an
\* allow-listed extension is in Resources/; reserved files, files with other
\* extensions and sub-directories are where they were.  With move_artifacts
\* off every file at the group root that is not a notebook is where it was.
C23_RootArtifactsMoved ==
    Exploded =>
        /\ \A p \in RootFiles(prev) :
              /\ (last.move /\ ~Reserved(p) /\ ~Notebook(p) /\ AllowListed(p)) => MovedTo(p, InResources(p))
              /\ Reserved(p) => IsFile(fs, p)
              /\ (~Reserved(p) /\ ~Notebook(p) /\ ~(last.move /\ AllowListed(p))) =>
                    IsFile(fs, p) /\ fs[p].text = prev[p].text
        /\ \A d \in IterDir(prev, GroupPath) : IsDir(prev, d) => IsDir(fs, d)

\* a run with move_artifacts on that moved MAP.PNG to Resources/ and left the
\* README.md and the sub-directories at the group root
C23_Witness ==
    /\ Exploded
    /\ last.move
    /\ \E p \in RootFiles(prev) :
          /\ BaseName(p) = <<"M","A","P",".","P","N","G">>
          /\ MovedTo(p, InResources(p))
    /\ \E p \in RootFiles(prev) : Reserved(p) /\ IsFile(fs, p)
    /\ \E d \in IterDir(prev, GroupPath) : IsDir(prev, d) /\ IsDir(fs, d)

\* ---- the overwrite guard (C24) ----

\* the last run was one of the two entries, wrote to disk and ended normally
Ran == Applied \/ Wrote

\* the files either writer writes: those with one of the four scaffold names
ScaffoldFiles(f) == {p \in FilesOf(f) : BaseName(p) \in PROTECTED_FILES}

\* the folders whose record the last metadata run handed to write_text
Regenerated ==
    IF last.op = "meta_create" THEN {last.target}
    ELSE SeqToSet(walk_candidate_folders(prev, AssignmentsRoot, NoArg).folders)

\* the text of the record rebuilt for folder d from the tree before the run
Rebuilt(d) ==
    dump_yaml(build_meta(prev, d, parse_existing_meta(prev, Append(d, META_NAME)),
                         last.refresh, last.prune, clock, clock))

\* C24: without force a run of either entry leaves the content of every file
\* that exists and that a writer is asked to write as it was, whatever refresh
\* and prune are; with force a metadata run that writes to disk replaces each
\* record it regenerates with the rebuilt record.
C24_OverwriteGuard ==
    /\ (Ran /\ ~last.force) =>
          \A p \in ScaffoldFiles(prev) : IsFile(fs, p) /\ fs[p].text = prev[p].text
    /\ (Wrote /\ last.force) =>
          \A d \in Regenerated :
              /\ IsFile(fs, Append(d, META_NAME))
              /\ fs[Append(d, META_NAME)].text = Rebuilt(d)

\* a metadata run with refresh and without force on a folder whose record differs
\* from the rebuilt one: the record is as it was
C24_Witness ==
    /\ Wrote /\ ~last.force /\ last.refresh
    /\ \E d \in Regenerated :
          /\ Append(d, META_NAME) \in RecordsIn(prev)
          /\ Rebuilt(d) # prev[Append(d, META_NAME)].text
          /\ fs[Append(d, META_NAME)].text = prev[Append(d, META_NAME)].text

\* ---- distinct lesson folders (C25) ----

\* the moves of the last run that took a lesson notebook from the group root, in
\* the order they were made
LessonMoves ==
    SelectSeq(performed,
              LAMBDA a : /\ a.op = "move"
                         /\ a.src \in RootNotebooks(prev)
                         /\ classify_notebook_stem(Stem(BaseName(a.src))) = "lesson")

\* two ASCII digits, a dash and at least one more character
WellFormedLesson(name) ==
    Len(name) >= 4 /\ name[1] \in Digits /\ name[2] \in Digits /\ name[3] = "-"

NumberOf(name) == 10 * DigitValue[name[1]] + DigitValue[name[2]]

\* C25: in one apply run every lesson notebook of the group root goes into a
\* lesson folder that did not exist before, whose name is two digits, a dash
\* and a slug, whose number is greater than every lesson number there was
\* before the run and than the numbers of the folders made earlier in the run;
\* no two notebooks go into the same folder.
C25_DistinctLessonFolders ==
    Applied =>
        /\ \A nb \in RootNotebooks(prev) :
              classify_notebook_stem(Stem(BaseName(nb))) = "lesson" =>
                  \E k \in DOMAIN LessonMoves : LessonMoves[k].src = nb
        /\ \A k \in DOMAIN LessonMoves :
              LET folder == Parent(LessonMoves[k].dst)
              IN  /\ Parent(folder) = LessonsPath
                  /\ ~Exists(prev, folder)
                  /\ IsFile(fs, Append(folder, BaseName(LessonMoves[k].src)))
                  /\ WellFormedLesson(BaseName(folder))
                  /\ \A n \in LessonNumbers(prev) : NumberOf(BaseName(folder)) > n
                  /\ \A j \in DOMAIN LessonMoves :
                        j < k => /\ Parent(LessonMoves[j].dst) # folder
                                 /\ WellFormedLesson(BaseName(Parent(LessonMoves[j].dst)))
                                 /\ NumberOf(BaseName(Parent(LessonMoves[j].dst))) < NumberOf(BaseName(folder))
====
